---- MODULE Spec2Model ----
(***************************************************************************)
(* A model of SirServer's tile store (sfile.SRepository.GetXYZ) and of its *)
(* repository catalogue (sfile.ListRepositories and the scan behind it).   *)
(*                                                                         *)
(* Conventions                                                             *)
(*   - A Go string is a sequence of characters, each character a TLA+      *)
(*     string of length one; the quote characters, the backslash and   *)
(*     the characters outside printable ASCII are written as tokens in     *)
(*     angle brackets (DQ, SQ, BQ, BS, DEL, C0, U+FFFD, and 0xFF for a     *)
(*     byte that is not valid UTF-8).                                      *)
(*   - A float64 number of degrees is a fixed-point integer in units of    *)
(*     2^-20 degree (Deg(113) is 113.0).                                   *)
(***************************************************************************)
EXTENDS Integers, Sequences, FiniteSets, TLC

VARIABLES
    disk,      \* the directory tree under the repository root
    fpc,       \* GetXYZ: position of the tile fetch
    fcall,     \* GetXYZ: arguments and locals of the fetch
    fres,      \* GetXYZ: what the fetch returned
    fhandles,  \* GetXYZ: database handles opened by sql.Open and not yet closed
    flog,      \* GetXYZ: the system calls of the fetch, in order
    lpc,       \* ListRepositories: position of the one listing in flight
    li,        \* ListRepositories: index of the entry of dirs being handled
    lrepos,    \* ListRepositories: the slice repositories
    lscan,     \* analysisRepository: repo and jsonData between the scan and the write
    lres,      \* ListRepositories: what the last listing returned
    llog,      \* ListRepositories: the system calls of the listing in flight, in order
    lhandles,  \* calExtend: database handles opened by sql.Open and not yet closed
    lcalls,    \* number of listings that have returned
    ldisk0,    \* the directory tree as it was when the listing in flight was called
    lcancel,   \* the caller's cancellation signal: what the listing was at when it came
    gor,       \* concurrent listings: the locals of each goroutine serving a request
    bacc,      \* Box: the accumulator box
    bin,       \* Box: the boxes still to be added to the accumulator
    tpc,       \* tileBound: position of the call
    ttile,     \* tileBound: the arguments tx, ty, zoom
    tm,        \* tileBound: the metres of the two corners (x, y and x_, y_)
    tbox,      \* tileBound: the box returned
    upc,       \* PerformUpdate: position of the update
    ucall,     \* PerformUpdate, downloadAndPrepareBinary: fields of u, arguments and locals
    ufs        \* the temporary files, the handles on them and the running executable

fvars == <<fpc, fcall, fres, fhandles, flog>>
lvars == <<lpc, li, lrepos, lscan, lres, llog, lhandles, lcalls, ldisk0>>
xvars == <<lcancel, gor, bacc, bin>>
tvars == <<tpc, ttile, tm, tbox>>
zvars == <<tvars, upc, ucall, ufs>>
vars == <<disk, fvars, lvars, xvars, zvars>>

----------------------------------------------------------------------------
(* Go strings, fmt.Sprintf, integer arithmetic                              *)

\* printable ASCII, codes 32..126
Ascii ==
    << " ", "!", "<DQ>", "#", "$", "%", "&", "<SQ>", "(", ")", "*", "+", ",", "-", ".", "/",
       "0", "1", "2", "3", "4", "5", "6", "7", "8", "9", ":", ";", "<", "=", ">", "?",
       "@", "A", "B", "C", "D", "E", "F", "G", "H", "I", "J", "K", "L", "M", "N", "O",
       "P", "Q", "R", "S", "T", "U", "V", "W", "X", "Y", "Z", "[", "<BS>", "]", "^", "_",
       "<BQ>", "a", "b", "c", "d", "e", "f", "g", "h", "i", "j", "k", "l", "m", "n", "o",
       "p", "q", "r", "s", "t", "u", "v", "w", "x", "y", "z", "{", "|", "}", "~" >>

RuneError == "<U+FFFD>"

\* conversion of an integer to int8 (two's complement wrap-around)
Int8(n) == ((n + 128) % 256) - 128

\* the verb %c applied to an int8 c: fmt converts c to uint64, so a negative c
\* is above utf8.MaxRune and prints as utf8.RuneError
FmtC(c) ==
    IF c < 0 THEN RuneError
    ELSE IF c \in 32..126 THEN Ascii[c - 31]
    ELSE IF c = 127 THEN "<DEL>"
    ELSE "<C0>"

\* the code of a character (the byte tableName[0])
Ord(ch) ==
    IF \E i \in 1..Len(Ascii) : Ascii[i] = ch
    THEN 31 + (CHOOSE i \in 1..Len(Ascii) : Ascii[i] = ch)
    ELSE IF ch = "<DEL>" THEN 127
    ELSE IF ch = "<C0>" THEN 1
    ELSE 239      \* first byte of the UTF-8 encoding of U+FFFD; also any byte >= 128

\* Go's integer division and remainder truncate toward zero
Quot(a, b) == IF a >= 0 THEN a \div b ELSE -((-a) \div b)
Rem(a, b) == a - b * Quot(a, b)

RECURSIVE Digits(_)
Digits(n) == IF n < 10 THEN <<Ascii[17 + n]>> ELSE Digits(n \div 10) \o <<Ascii[17 + (n % 10)]>>

\* the verb %d
FmtD(n) == IF n < 0 THEN <<"-">> \o Digits(-n) ELSE Digits(n)

\* the builtin max on int8
max(a, b) == IF a >= b THEN a ELSE b

HasSuffix(s, suf) ==
    /\ Len(s) >= Len(suf)
    /\ SubSeq(s, Len(s) - Len(suf) + 1, Len(s)) = suf

\* len(strings.Split(s, sep)) for a one-character separator
SplitCount(s, sep) == 1 + Cardinality({i \in 1..Len(s) : s[i] = sep})

----------------------------------------------------------------------------
(* SRepository.GetXYZ: the address of a tile                                *)

GetXYZ_mut_vz(z) == max(z, 0)
GetXYZ_vz(z) == max(z, 9)

GetXYZ_mut_letter(z) == 65 + (GetXYZ_vz(z) % 26)
\* 'A'+vz is an int8 expression: it wraps above 127
GetXYZ_letter(z) == Int8(65 + GetXYZ_vz(z))

GetXYZ_subDir(z) == <<FmtC(GetXYZ_letter(z))>>

GetXYZ_dbFile(x, y, z) ==
    <<FmtC(GetXYZ_letter(z))>> \o <<"_">> \o FmtD(Quot(x, 256)) \o <<"_">>
        \o FmtD(Quot(y, 256)) \o <<".", "s">>

GetXYZ_mut_tableName(x, y, z) ==
    <<FmtC(GetXYZ_letter(z))>> \o <<"_">> \o FmtD(Quot(x, 256)) \o <<"_">> \o FmtD(Quot(y, 256))
GetXYZ_tableName(x, y, z) ==
    <<FmtC(GetXYZ_letter(z))>> \o <<"_">> \o FmtD(Quot(x, 64)) \o <<"_">> \o FmtD(Quot(y, 64))

GetXYZ_mut_index(x, y) == Rem(y, 64) + 64 * Rem(x, 64)
GetXYZ_mut_stride(x, y) == Rem(x, 64) + 63 * Rem(y, 64)
GetXYZ_index(x, y) == Rem(x, 64) + 64 * Rem(y, 64)

----------------------------------------------------------------------------
(* The directory tree.                                                      *)
(*   disk      = [listable, entries]        the repository root             *)
(*   entries   : entries of the root; a directory entry is a repository     *)
(*               [name, isDir, listable, sidecar, canCreate, canWrite, subs]*)
(*   subs      : entries of a repository [name, isDir, listable, files]     *)
(*   files     : entries of a zoom-letter directory                         *)
(*               [name, isDir, size, statOK, db]                            *)
(*   db        = [valid, tables], tables a sequence of [name, rows] in the  *)
(*               order of sqlite_master's names; a row is [ID, X, Y, Data]  *)

Row(id, x, y, data) == [ID |-> id, X |-> x, Y |-> y, Data |-> data]
Table(name, rows) == [name |-> name, rows |-> rows]
Db(tables) == [valid |-> TRUE, tables |-> tables]
NotADb == [valid |-> FALSE, tables |-> <<>>]
File(name, size, db) ==
    [name |-> name, isDir |-> FALSE, size |-> size, statOK |-> TRUE, db |-> db]
Dir(name, files) == [name |-> name, isDir |-> TRUE, listable |-> TRUE, files |-> files]

\* filepath.Join / path.Join of two elements
Join(a, b) == a \o <<"/">> \o b

\* the entries of seq whose name is n
Named(seq, n) == {i \in 1..Len(seq) : seq[i].name = n}

\* os.Stat(filepath.Join(f.dir, subDir, dbFile)) inside repository r:
\* "ENOENT" (os.IsNotExist), "EACCES" (another error) or "ok"
StatShard(r, subDir, dbFile) ==
    IF Named(r.subs, subDir) = {} THEN "ENOENT"
    ELSE LET d == r.subs[CHOOSE i \in Named(r.subs, subDir) : TRUE] IN
         IF ~d.isDir THEN "ENOTDIR"
         ELSE IF Named(d.files, dbFile) = {} THEN "ENOENT"
         ELSE IF ~d.files[CHOOSE i \in Named(d.files, dbFile) : TRUE].statOK THEN "EACCES"
         ELSE "ok"

\* the shard file at subDir/dbFile of repository r, when StatShard is not ENOENT
ShardAt(r, subDir, dbFile) ==
    LET d == r.subs[CHOOSE i \in Named(r.subs, subDir) : TRUE] IN
    d.files[CHOOSE i \in Named(d.files, dbFile) : TRUE]

----------------------------------------------------------------------------
(* SRepository.GetXYZ, one action per system call                           *)

NoResult == [kind |-> "none", msg |-> "", data |-> ""]
ErrResult(m) == [kind |-> "err", msg |-> m, data |-> ""]
DataResult(d) == [kind |-> "data", msg |-> "", data |-> d]

NoCall == [dir |-> 0, x |-> 0, y |-> 0, z |-> 0, subDir |-> <<>>, dbFile |-> <<>>,
           tableName |-> <<>>, index |-> 0]

\* tile requests: xyzFileHandler parses x and y as int64 and z as int8
Xs == {-1, 0, 63, 64, 70, 300}
Ys == {0, 64, 70, 255, 256}
Zs == -128..127

\* os.IsNotExist(err) of line 23
GetXYZ_mut_notExist(st) == FALSE
GetXYZ_notExist(st) == st = "ENOENT"

\* lines 18-22: the names computed before the first system call
GetXYZ_Call ==
    /\ fpc = "call"
    /\ fcall' = [fcall EXCEPT !.subDir = GetXYZ_subDir(fcall.z),
                              !.dbFile = GetXYZ_dbFile(fcall.x, fcall.y, fcall.z)]
    /\ fpc' = "stat"
    /\ UNCHANGED <<disk, fres, flog, fhandles, lvars, xvars, zvars>>

GetXYZ_filePath == Join(Join(disk.entries[fcall.dir].name, fcall.subDir), fcall.dbFile)

\* lines 23-26: os.Stat, and the return when the shard file does not exist
GetXYZ_Stat ==
    /\ fpc = "stat"
    /\ LET st == StatShard(disk.entries[fcall.dir], fcall.subDir, fcall.dbFile) IN
       /\ flog' = Append(flog, [op |-> "os.Stat", path |-> GetXYZ_filePath, out |-> st])
       /\ IF GetXYZ_notExist(st)
          THEN /\ fres' = ErrResult("not exist")
               /\ fpc' = "done"
          ELSE /\ fres' = fres
               /\ fpc' = "open"
    /\ UNCHANGED <<disk, fcall, fhandles, lvars, xvars, zvars>>

\* lines 27-34: sql.Open (which creates the handle and touches no file, so it
\* cannot fail for the registered driver), then the table name and the row index
GetXYZ_Open ==
    /\ fpc = "open"
    /\ flog' = Append(flog, [op |-> "sql.Open", path |-> GetXYZ_filePath, out |-> "ok"])
    /\ fhandles' = fhandles + 1
    /\ fcall' = [fcall EXCEPT !.tableName = GetXYZ_tableName(fcall.x, fcall.y, fcall.z),
                              !.index = GetXYZ_index(fcall.x, fcall.y)]
    /\ fpc' = "query"
    /\ UNCHANGED <<disk, fres, lvars, xvars, zvars>>

QueryData_mut_anyRow(r, subDir, dbFile, tableName, index) ==
    IF StatShard(r, subDir, dbFile) # "ok" THEN ErrResult("unable to open database file")
    ELSE LET f == ShardAt(r, subDir, dbFile) IN
         IF f.isDir \/ ~f.db.valid THEN ErrResult("file is not a database")
         ELSE IF Named(f.db.tables, tableName) = {} THEN ErrResult("no such table")
         ELSE LET t == f.db.tables[CHOOSE i \in Named(f.db.tables, tableName) : TRUE] IN
              IF t.rows # {}
              THEN DataResult((CHOOSE row \in t.rows : TRUE).Data)
              ELSE ErrResult("not exist")
\* what db.Query and rows.Next give for "select Data from <table> where ID=<index>"
QueryData(r, subDir, dbFile, tableName, index) ==
    IF StatShard(r, subDir, dbFile) # "ok" THEN ErrResult("unable to open database file")
    ELSE LET f == ShardAt(r, subDir, dbFile) IN
         IF f.isDir \/ ~f.db.valid THEN ErrResult("file is not a database")
         ELSE IF Named(f.db.tables, tableName) = {} THEN ErrResult("no such table")
         ELSE LET t == f.db.tables[CHOOSE i \in Named(f.db.tables, tableName) : TRUE] IN
              IF \E row \in t.rows : row.ID = index
              THEN DataResult((CHOOSE row \in t.rows : row.ID = index).Data)
              ELSE ErrResult("not exist")

GetXYZ_mut_Query ==
    /\ fpc = "query"
    /\ flog' = Append(flog, [op |-> "db.Query", path |-> GetXYZ_filePath, out |-> "ok"])
    /\ fres' = QueryData(disk.entries[fcall.dir], fcall.subDir, fcall.dbFile,
                         fcall.tableName, fcall.index)
    /\ fhandles' = fhandles
    /\ fpc' = "done"
    /\ UNCHANGED <<disk, fcall, lvars, xvars, zvars>>
\* lines 35-49: the query, the result, and the deferred rows.Close and db.Close
GetXYZ_Query ==
    /\ fpc = "query"
    /\ flog' = Append(flog, [op |-> "db.Query", path |-> GetXYZ_filePath, out |-> "ok"])
    /\ fres' = QueryData(disk.entries[fcall.dir], fcall.subDir, fcall.dbFile,
                         fcall.tableName, fcall.index)
    /\ fhandles' = fhandles - 1
    /\ fpc' = "done"
    /\ UNCHANGED <<disk, fcall, lvars, xvars, zvars>>

----------------------------------------------------------------------------
(* Box, and the Web-Mercator conversions of Repository.go                   *)
(* Metres are counted in the unit that makes ORIGIN_SHIFT equal to 180      *)
(* degrees, so that (mx / ORIGIN_SHIFT) * 180.0 keeps the number.           *)

\* the fixed-point unit: 2^20 units are one degree
Deg(n) == n * 1048576

\* stands for math.MaxFloat64: larger than every coordinate
MaxFloat64 == 2000000000

NewBox == [minx |-> MaxFloat64, miny |-> MaxFloat64, maxx |-> -MaxFloat64, maxy |-> -MaxFloat64]

min(a, b) == IF a <= b THEN a ELSE b

extend_mut_maxy(b, b2) ==
    [minx |-> min(b.minx, b2.minx), miny |-> min(b.miny, b2.miny),
     maxx |-> max(b.maxx, b2.maxx), maxy |-> max(b.maxy, b2.miny)]
extend(b, b2) ==
    [minx |-> min(b.minx, b2.minx), miny |-> min(b.miny, b2.miny),
     maxx |-> max(b.maxx, b2.maxx), maxy |-> max(b.maxy, b2.maxy)]

ORIGIN_SHIFT == Deg(180)

\* 2 * ORIGIN_SHIFT / 256
INITIALIZE_RESOLUTION == Deg(360) \div 256

RECURSIVE Pow2(_)
Pow2(n) == IF n = 0 THEN 1 ELSE 2 * Pow2(n - 1)

pixelsToMeters_mut_my(px, py, zoom) ==
    LET res == IF zoom >= 0 THEN INITIALIZE_RESOLUTION \div Pow2(zoom)
               ELSE INITIALIZE_RESOLUTION * Pow2(-zoom) IN
    [mx |-> px * res - ORIGIN_SHIFT, my |-> -(px * res - ORIGIN_SHIFT)]
pixelsToMeters(px, py, zoom) ==
    LET res == IF zoom >= 0 THEN INITIALIZE_RESOLUTION \div Pow2(zoom)
               ELSE INITIALIZE_RESOLUTION * Pow2(-zoom) IN
    [mx |-> px * res - ORIGIN_SHIFT, my |-> -(py * res - ORIGIN_SHIFT)]

\* 180/Pi * (2*atan(exp(lat*Pi/180)) - Pi/2) at the tile corners of the zoom levels
\* 0 to 4 and of the tiles of zoom level 14 that the shards of this model hold,
\* rounded to an even number of units
InvMercatorNorth(lat) ==
    CASE lat = 188743680 -> 89182572       \*  180        ->  85.0511287798
      [] lat = 188720640 -> 89180584       \*  179.978027 ->  85.0492329083
      [] lat = 188697600 -> 89178596       \*  179.956055 ->  85.0473363122
      [] lat = 165150720 -> 86692368       \*  157.5      ->  82.6762849783
      [] lat = 141557760 -> 83017162       \*  135        ->  79.1713346408
      [] lat = 117964800 -> 77615116       \*  112.5      ->  74.0195433115
      [] lat = 94371840 -> 69744208        \*   90        ->  66.5132604431
      [] lat = 70778880 -> 58485976        \*   67.5      ->  55.7765730187
      [] lat = 47185920 -> 42970538        \*   45        ->  40.9798980696
      [] lat = 23592960 -> 23008950        \*   22.5      ->  21.9430455334
      [] lat = 0 -> 0

\* the function is odd
InvMercator(lat) == IF lat >= 0 THEN InvMercatorNorth(lat) ELSE -InvMercatorNorth(-lat)

meterToLngLat(mx, my) ==
    LET perDegree == ORIGIN_SHIFT \div Deg(180) IN
    [lon |-> mx \div perDegree, lat |-> InvMercator(my \div perDegree)]

tileBound_mut_corners(tx, ty, zoom) ==
    LET tileSize == 256
        m0 == pixelsToMeters(tx * tileSize, ty * tileSize, zoom)
        p0 == meterToLngLat(m0.mx, m0.my)
        m1 == pixelsToMeters((tx + 1) * tileSize, (ty + 1) * tileSize, zoom)
        p1 == meterToLngLat(m1.mx, m1.my)
    IN  [minx |-> p0.lon, miny |-> p0.lat, maxx |-> p1.lon, maxy |-> p1.lat]
tileBound(tx, ty, zoom) ==
    LET tileSize == 256
        m0 == pixelsToMeters(tx * tileSize, ty * tileSize, zoom)
        p0 == meterToLngLat(m0.mx, m0.my)
        m1 == pixelsToMeters((tx + 1) * tileSize, (ty + 1) * tileSize, zoom)
        p1 == meterToLngLat(m1.mx, m1.my)
    IN  [minx |-> p0.lon, miny |-> p1.lat, maxx |-> p1.lon, maxy |-> p0.lat]

----------------------------------------------------------------------------
(* Repository, repository.json                                              *)

Repository(name, lng, lat, zoom, size, url, pared) ==
    [Name |-> name, Lng |-> lng, Lat |-> lat, Zoom |-> zoom, Size |-> size,
     Url |-> url, Pared |-> pared]

\* the zero value Repository{}
ZeroRepository == Repository(<<>>, 0, 0, 0, 0, <<>>, FALSE)

\* the placeholder of ListRepositories, lines 72-80, and the initial repo of
\* analysisRepository, lines 115-123
Placeholder(name) == Repository(name, Deg(113), Deg(40), 10, 0, name, FALSE)

JsonKeys == {"name", "lng", "lat", "zoom", "size", "url", "pared"}

\* encoding/json writes a string coerced to valid UTF-8: every invalid byte
\* becomes U+FFFD
ToValidUTF8(s) == [i \in 1..Len(s) |-> IF s[i] = "<0xFF>" THEN RuneError ELSE s[i]]

MarshalIndent_mut_key(repo) ==
    [kind |-> "json", has |-> JsonKeys \ {"pared"},
     obj |-> [name |-> ToValidUTF8(repo.Name), lng |-> repo.Lng, lat |-> repo.Lat,
              zoom |-> repo.Zoom, size |-> repo.Size, url |-> ToValidUTF8(repo.Url),
              pared |-> repo.Pared]]
\* json.MarshalIndent(repo, "", "  "): the document, as the keys it holds and
\* their values (a float64 and an int are written so that they read back equal)
MarshalIndent(repo) ==
    [kind |-> "json", has |-> JsonKeys,
     obj |-> [name |-> ToValidUTF8(repo.Name), lng |-> repo.Lng, lat |-> repo.Lat,
              zoom |-> repo.Zoom, size |-> repo.Size, url |-> ToValidUTF8(repo.Url),
              pared |-> repo.Pared]]

\* decoder.Decode(&repo) on a well-formed document: a key the document lacks
\* leaves the field at its zero value
Decode(doc) ==
    LET z == ZeroRepository
        o == doc.obj
        F(k, v, d) == IF k \in doc.has THEN v ELSE d
    IN  Repository(F("name", o.name, z.Name), F("lng", o.lng, z.Lng), F("lat", o.lat, z.Lat),
                   F("zoom", o.zoom, z.Zoom), F("size", o.size, z.Size),
                   F("url", o.url, z.Url), F("pared", o.pared, z.Pared))

\* the file right after os.Create, and after a Write that failed
EmptyFile == [kind |-> "empty", has |-> {}, obj |-> MarshalIndent(ZeroRepository).obj]
PartialFile == [kind |-> "partial", has |-> {}, obj |-> MarshalIndent(ZeroRepository).obj]
\* a repository.json that is not JSON
Malformed == [kind |-> "malformed", has |-> {}, obj |-> MarshalIndent(ZeroRepository).obj]
Absent == [kind |-> "absent", has |-> {}, obj |-> MarshalIndent(ZeroRepository).obj]

\* readRepositoryInfo: os.Open, then Decode
readRepositoryInfo_mut_lenient(r) ==
    IF r.sidecar.kind = "absent" THEN [err |-> "open", repo |-> ZeroRepository]
    ELSE IF r.sidecar.kind = "json" THEN [err |-> "", repo |-> Decode(r.sidecar)]
    ELSE [err |-> "", repo |-> ZeroRepository]
readRepositoryInfo_mut_eof(r) ==
    IF r.sidecar.kind = "absent" THEN [err |-> "open", repo |-> ZeroRepository]
    ELSE IF r.sidecar.kind = "json" THEN [err |-> "", repo |-> Decode(r.sidecar)]
    ELSE IF r.sidecar.kind = "empty" THEN [err |-> "", repo |-> ZeroRepository]
    ELSE [err |-> "parse", repo |-> ZeroRepository]
readRepositoryInfo_mut_strict(r) ==
    IF r.sidecar.kind = "absent" THEN [err |-> "open", repo |-> ZeroRepository]
    ELSE IF r.sidecar.kind = "json" /\ r.sidecar.has = JsonKeys
         THEN [err |-> "", repo |-> Decode(r.sidecar)]
    ELSE [err |-> "parse", repo |-> ZeroRepository]
readRepositoryInfo_mut_nocache(r) == [err |-> "open", repo |-> ZeroRepository]
readRepositoryInfo(r) ==
    IF r.sidecar.kind = "absent" THEN [err |-> "open", repo |-> ZeroRepository]
    ELSE IF r.sidecar.kind = "json" THEN [err |-> "", repo |-> Decode(r.sidecar)]
    ELSE [err |-> "parse", repo |-> ZeroRepository]

----------------------------------------------------------------------------
(* The scan: listSubDir, listAllFile, listTables, calExtend and the loops   *)
(* of analysisRepository.  A scan is read-only until os.Create, so its      *)
(* loops are computed in one step; Ev is what the step records.             *)

Ev(op, k, path, out) == [op |-> op, repo |-> k, path |-> path, out |-> out]

UpperCase == {Ascii[i] : i \in 34..59}

\* regexp "^[A-Z]$"
IsLetterName(n) == Len(n) = 1 /\ n[1] \in UpperCase

\* listSubDir without its error return: the zoom-letter directories
listSubDir(r) == SelectSeq(r.subs, LAMBDA d : d.isDir /\ IsLetterName(d.name))

\* listAllFile without its error return: the shard files of a directory
listAllFile(d) == SelectSeq(d.files, LAMBDA f : ~f.isDir /\ HasSuffix(f.name, <<".", "s">>))

listTables_mut_all(db) ==
    IF ~db.valid THEN [err |-> TRUE, tables |-> <<>>]
    ELSE [err |-> FALSE, tables |-> db.tables]
\* listTables: the query on sqlite_master fails on a file that is no database
listTables(db) ==
    IF ~db.valid THEN [err |-> TRUE, tables |-> <<>>]
    ELSE [err |-> FALSE,
          tables |-> SelectSeq(db.tables, LAMBDA t : SplitCount(t.name, "_") = 3)]

MinOf(S) == CHOOSE m \in S : \A n \in S : m <= n
MaxOf(S) == CHOOSE m \in S : \A n \in S : m >= n

\* calExtend, lines 223-244: min and max over an empty table are NULL, which
\* Scan cannot store in an int64
RECURSIVE calExtend_tables(_, _, _)
calExtend_tables(tables, i, box) ==
    IF i > Len(tables) THEN [err |-> FALSE, box |-> box]
    ELSE IF tables[i].rows = {} THEN [err |-> TRUE, box |-> NewBox]
    ELSE LET xs == {row.X : row \in tables[i].rows}
             ys == {row.Y : row \in tables[i].rows}
             zoom == Ord(tables[i].name[1]) - Ord("A")
             minTile == tileBound(MinOf(xs), MinOf(ys), zoom)
             maxTile == tileBound(MaxOf(xs), MaxOf(ys), zoom)
         IN  calExtend_tables(tables, i + 1, extend(extend(box, minTile), maxTile))

\* calExtend: sql.Open gives a handle that no path of calExtend closes
calExtend(f) ==
    LET lt == listTables(f.db) IN
    IF lt.err THEN [err |-> TRUE, box |-> NewBox]
    ELSE calExtend_tables(lt.tables, 1, NewBox)

\* line 146
analysis_mut_addSize(fileSize, size) == size
analysis_addSize(fileSize, size) == fileSize + size

NewScan == [box |-> NewBox, fileSize |-> 0, opened |-> 0, log |-> <<>>]

\* analysisRepository, lines 136-147: the shard files of one directory
RECURSIVE analysis_files(_, _, _, _, _)
analysis_files(k, dir, files, i, acc) ==
    IF i > Len(files) THEN acc
    ELSE LET f == files[i]
             file == Join(dir, f.name)
             box1 == calExtend(f)
             a1 == [acc EXCEPT !.opened = @ + 1,
                               !.log = @ \o <<Ev("sql.Open", k, file, "ok"),
                                              Ev("calExtend", k, file,
                                                 IF box1.err THEN "err" ELSE "ok")>>]
             a2 == [a1 EXCEPT !.box = extend(@, box1.box),
                              !.log = Append(@, Ev("os.Stat", k, file,
                                                   IF f.statOK THEN "ok" ELSE "err"))]
             a3 == [a2 EXCEPT !.fileSize = analysis_addSize(@, f.size)]
         IN  IF box1.err THEN analysis_files(k, dir, files, i + 1, a1)
             ELSE IF ~f.statOK THEN analysis_files(k, dir, files, i + 1, a2)
             ELSE analysis_files(k, dir, files, i + 1, a3)

\* the error return of os.ReadDir in listSubDir and listAllFile
ReadDir_mut_err(d) == FALSE
ReadDir_err(d) == ~d.listable

\* analysisRepository, lines 131-148: the zoom-letter directories
RECURSIVE analysis_subdirs(_, _, _, _, _)
analysis_subdirs(k, dir, subdirs, i, acc) ==
    IF i > Len(subdirs) THEN [err |-> FALSE, scan |-> acc]
    ELSE LET sub == Join(dir, subdirs[i].name)
             a1 == [acc EXCEPT !.log = Append(@, Ev("os.ReadDir", k, sub,
                                  IF subdirs[i].listable THEN "ok" ELSE "err"))]
         IN  IF ReadDir_err(subdirs[i]) THEN [err |-> TRUE, scan |-> a1]
             ELSE analysis_subdirs(k, dir, subdirs, i + 1,
                      analysis_files(k, sub, listAllFile(subdirs[i]), 1, a1))

\* analysisRepository, lines 125-148: everything before repository.json is built
analysis_scan(k, r) ==
    LET a0 == [NewScan EXCEPT !.log = <<Ev("os.ReadDir", k, r.name,
                                           IF r.listable THEN "ok" ELSE "err")>>] IN
    IF ReadDir_err(r) THEN [err |-> TRUE, scan |-> a0]
    ELSE analysis_subdirs(k, r.name, listSubDir(r), 1, a0)

analysis_mut_repo(r, scan) ==
    Repository(r.name,
               (scan.box.minx + scan.box.maxx) \div 2,
               (scan.box.minx + scan.box.maxy) \div 2,
               14, scan.fileSize, r.name, TRUE)
\* analysisRepository, lines 152-156: the descriptor of a finished scan
analysis_repo(r, scan) ==
    Repository(r.name,
               (scan.box.minx + scan.box.maxx) \div 2,
               (scan.box.miny + scan.box.maxy) \div 2,
               14, scan.fileSize, r.name, TRUE)

----------------------------------------------------------------------------
(* ListRepositories, one action per step that reads or writes repository.json *)

\* listings per behaviour
MaxCalls == 2

SidecarName == <<"r", "e", "p", "o", "s", "i", "t", "o", "r", "y", ".", "j", "s", "o", "n">>
BaseDir == <<".">>

NoScan == [repo |-> ZeroRepository, jsonData |-> MarshalIndent(ZeroRepository)]
NoListing == [repos |-> <<>>, err |-> FALSE, failed |-> {}, scanned |-> {}]

\* the events of llog about entry k of the root
LogOf(k) == SelectSeq(llog, LAMBDA e : e.repo = k)
Events(k) == {LogOf(k)[j] : j \in 1..Len(LogOf(k))}

\* the entries whose scan failed, and succeeded, in the listing in flight
Failed ==
    {k \in 1..Len(disk.entries) :
        \E e \in Events(k) : e.op = "analysisRepository" /\ e.out = "err"}
Scanned ==
    {k \in 1..Len(disk.entries) :
        \E e \in Events(k) : e.op = "analysisRepository" /\ e.out = "ok"}

\* lines 72-80
ListRepositories_mut_onError(repositories, name) == Append(repositories, ZeroRepository)
ListRepositories_onError(repositories, name) == Append(repositories, Placeholder(name))

\* lines 82 and 85
ListRepositories_onRepo(repositories, repo) == Append(repositories, repo)

\* line 67
ListRepositories_mut_isDir(dir) == TRUE
ListRepositories_isDir(dir) == dir.isDir

\* lines 60-64: os.ReadDir(baseDir)
ListRepositories_Call ==
    /\ lpc = "idle"
    /\ lcalls < MaxCalls
    /\ ldisk0' = disk
    /\ lrepos' = <<>>
    /\ lscan' = NoScan
    /\ llog' = <<Ev("os.ReadDir", 0, BaseDir, IF disk.listable THEN "ok" ELSE "err")>>
    /\ IF disk.listable
       THEN /\ lpc' = "loop"
            /\ li' = 1
            /\ UNCHANGED <<lres, lcalls>>
       ELSE /\ lpc' = "idle"
            /\ li' = 0
            /\ lres' = [repos |-> <<>>, err |-> TRUE, failed |-> {}, scanned |-> {}]
            /\ lcalls' = lcalls + 1
    /\ UNCHANGED <<disk, fvars, xvars, lhandles, zvars>>

\* lines 66-67: an entry that is no directory
ListRepositories_Skip ==
    /\ lpc = "loop"
    /\ li <= Len(disk.entries)
    /\ ~ListRepositories_isDir(disk.entries[li])
    /\ li' = li + 1
    /\ UNCHANGED <<disk, fvars, xvars, lpc, lrepos, lscan, lres, llog, lhandles, lcalls, ldisk0, zvars>>

\* lines 68-69 and 84-86: readRepositoryInfo
ListRepositories_Read ==
    /\ lpc = "loop"
    /\ li <= Len(disk.entries)
    /\ ListRepositories_isDir(disk.entries[li])
    /\ LET r == disk.entries[li]
           info == readRepositoryInfo(r)
       IN  /\ llog' = Append(llog, Ev("os.Open", li, Join(r.name, SidecarName),
                                      IF info.err = "" THEN "ok" ELSE info.err))
           /\ IF info.err = ""
              THEN /\ lrepos' = ListRepositories_onRepo(lrepos, info.repo)
                   /\ li' = li + 1
                   /\ lpc' = "loop"
              ELSE /\ lpc' = "scan"
                   /\ UNCHANGED <<lrepos, li>>
    /\ UNCHANGED <<disk, fvars, xvars, lscan, lres, lhandles, lcalls, ldisk0, zvars>>

\* the error return of analysisRepository and lines 71-80 of its caller
analysis_fail(log) ==
    /\ llog' = log \o <<Ev("analysisRepository", li, disk.entries[li].name, "err")>>
    /\ lrepos' = ListRepositories_onError(lrepos, disk.entries[li].name)
    /\ li' = li + 1
    /\ lpc' = "loop"
    /\ lscan' = NoScan

\* analysisRepository, lines 113-161: the scan and json.MarshalIndent
analysisRepository_Scan ==
    /\ lpc = "scan"
    /\ LET r == disk.entries[li]
           sc == analysis_scan(li, r)
           repo == analysis_repo(r, sc.scan)
       IN  /\ lhandles' = lhandles + sc.scan.opened
           /\ IF sc.err
              THEN analysis_fail(llog \o sc.scan.log)
              ELSE /\ llog' = llog \o sc.scan.log
                   /\ lscan' = [repo |-> repo, jsonData |-> MarshalIndent(repo)]
                   /\ lpc' = "create"
                   /\ UNCHANGED <<lrepos, li>>
    /\ UNCHANGED <<disk, fvars, xvars, lres, lcalls, ldisk0, zvars>>

SetSidecar(doc) == [disk EXCEPT !.entries[li].sidecar = doc]

\* analysisRepository, lines 164-168: os.Create truncates repository.json
analysisRepository_Create ==
    /\ lpc = "create"
    /\ LET r == disk.entries[li]
           log == Append(llog, Ev("os.Create", li, Join(r.name, SidecarName),
                                  IF r.canCreate THEN "ok" ELSE "err"))
       IN  IF r.canCreate
           THEN /\ disk' = SetSidecar(EmptyFile)
                /\ llog' = log
                /\ lpc' = "write"
                /\ UNCHANGED <<lrepos, li, lscan>>
           ELSE /\ analysis_fail(log)
                /\ UNCHANGED disk
    /\ UNCHANGED <<fvars, xvars, lres, lhandles, lcalls, ldisk0, zvars>>

\* analysisRepository, lines 171-176, and lines 81-83 of its caller
analysisRepository_Write ==
    /\ lpc = "write"
    /\ LET r == disk.entries[li]
           log == Append(llog, Ev("file.Write", li, Join(r.name, SidecarName),
                                  IF r.canWrite THEN "ok" ELSE "err"))
       IN  IF r.canWrite
           THEN /\ disk' = SetSidecar(lscan.jsonData)
                /\ llog' = Append(log, Ev("analysisRepository", li, r.name, "ok"))
                /\ lrepos' = ListRepositories_onRepo(lrepos, lscan.repo)
                /\ li' = li + 1
                /\ lpc' = "loop"
                /\ lscan' = NoScan
           ELSE /\ disk' = SetSidecar(PartialFile)
                /\ analysis_fail(log)
    /\ UNCHANGED <<fvars, xvars, lres, lhandles, lcalls, ldisk0, zvars>>

\* line 89
ListRepositories_Return ==
    /\ lpc = "loop"
    /\ li > Len(disk.entries)
    /\ lres' = [repos |-> lrepos, err |-> FALSE, failed |-> Failed, scanned |-> Scanned]
    /\ lpc' = "idle"
    /\ lcalls' = lcalls + 1
    /\ UNCHANGED <<disk, fvars, xvars, li, lrepos, lscan, llog, lhandles, ldisk0, zvars>>

ListRepositories_Next ==
    \/ ListRepositories_Call
    \/ ListRepositories_Skip
    \/ ListRepositories_Read
    \/ analysisRepository_Scan
    \/ analysisRepository_Create
    \/ analysisRepository_Write
    \/ ListRepositories_Return

----------------------------------------------------------------------------
(* The directory trees the behaviours start from                            *)

Repo(name, subs) ==
    [name |-> name, isDir |-> TRUE, listable |-> TRUE, sidecar |-> Absent,
     canCreate |-> TRUE, canWrite |-> TRUE, subs |-> subs]

\* an entry of the root, or of a repository, that is a plain file
PlainFile(name) ==
    [name |-> name, isDir |-> FALSE, listable |-> FALSE, sidecar |-> Absent,
     canCreate |-> FALSE, canWrite |-> FALSE, subs |-> <<>>]
PlainSub(name) == [name |-> name, isDir |-> FALSE, listable |-> FALSE, files |-> <<>>]

O_0_0 == <<"O", "_", "0", "_", "0">>
B_0_0 == <<"B", "_", "0", "_", "0">>
Shard(t) == t \o <<".", "s">>

\* one shard, one table, the single tile (0, 0) of zoom 14
OneTile == Db(<<Table(O_0_0, {Row(0, 0, 0, "png-0-0-14")})>>)

RepoEmpty == Repo(<<"e">>, <<Dir(<<"O">>, <<File(<<"n", "o", "t", "e", "s">>, 7, NotADb)>>)>>)

RepoOne == Repo(<<"a">>, <<Dir(<<"O">>, <<File(Shard(O_0_0), 4096, OneTile)>>)>>)

RepoTwo ==
    Repo(<<"b">>,
         << Dir(<<"B">>,
                << File(Shard(B_0_0), 8192,
                        Db(<< Table(B_0_0, {Row(0, 0, 0, "png-0-0-1"), Row(65, 1, 1, "png-1-1-1")}),
                              Table(<<"m", "e", "t", "a", "_", "1">>, {}) >>)),
                   File(<<"B", ".", "s", ".", "b", "a", "k">>, 11, NotADb) >>),
            Dir(<<"t", "m", "p">>, <<File(Shard(B_0_0), 999, NotADb)>>),
            PlainSub(<<"Z">>),
            Dir(<<"O">>,
                << File(Shard(O_0_0), 4096,
                        Db(<<Table(O_0_0, {Row(65, 1, 1, "png-1-1-14")})>>)) >>) >>)

\* a good shard, a file that is no database, and a shard whose table is empty
RepoBad ==
    Repo(<<"c">>,
         << Dir(<<"O">>,
                << File(Shard(O_0_0), 4096, OneTile),
                   File(Shard(<<"O", "_", "1", "_", "0">>), 50, NotADb),
                   File(Shard(<<"O", "_", "2", "_", "0">>), 70,
                        Db(<<Table(<<"O", "_", "8", "_", "0">>, {})>>)) >>) >>)

\* a shard whose os.Stat fails after its extents were read
RepoStat ==
    Repo(<<"d">>,
         << Dir(<<"O">>,
                << [File(Shard(O_0_0), 300, OneTile) EXCEPT !.statOK = FALSE],
                   File(Shard(<<"O", "_", "1", "_", "0">>), 4096,
                        Db(<<Table(<<"O", "_", "4", "_", "0">>, {Row(1, 1, 0, "png-1-0-14")})>>)) >>) >>)

RepoUnlistable == [Repo(<<"u">>, <<>>) EXCEPT !.listable = FALSE]

\* the second zoom-letter directory cannot be read
RepoSubUnlistable ==
    Repo(<<"s">>,
         << Dir(<<"O">>, <<File(Shard(O_0_0), 4096, OneTile)>>),
            [Dir(<<"P">>, <<>>) EXCEPT !.listable = FALSE] >>)

\* a directory whose name is not valid UTF-8
RepoBadName == Repo(<<"n", "<0xFF>">>, <<Dir(<<"O">>, <<File(Shard(O_0_0), 4096, OneTile)>>)>>)

\* a shard that holds a table with rows and a table without, and a good shard
RepoMixed ==
    Repo(<<"m">>,
         << Dir(<<"O">>,
                << File(Shard(O_0_0), 4096,
                        Db(<< Table(O_0_0, {Row(0, 0, 0, "png-0-0-14")}),
                              Table(<<"O", "_", "1", "_", "0">>, {}) >>)) >>),
            Dir(<<"B">>,
                << File(Shard(B_0_0), 8192,
                        Db(<<Table(B_0_0, {Row(65, 1, 1, "png-1-1-1")})>>)) >>) >>)

\* the tile (1, 1) of zoom 14, in a table of the name n
Tile11(n) == Db(<<Table(n, {Row(65, 1, 1, "png-1-1-14")})>>)

\* the shard of RepoOne among entries that are no zoom-letter directory, no shard
\* file and no tile table, each holding the tile (1, 1)
RepoNoise ==
    Repo(<<"z">>,
         << Dir(<<"t", "m", "p">>, <<File(Shard(O_0_0), 999, Tile11(O_0_0))>>),
            Dir(<<"O">>,
                << File(<<"O", "_", "9", "_", "9", ".", "s", "x">>, 100, Tile11(O_0_0)),
                   File(Shard(O_0_0), 4096,
                        Db(<< Table(O_0_0, {Row(0, 0, 0, "png-0-0-14")}),
                              Table(<<"O", "_", "0">>, {Row(65, 1, 1, "png-1-1-14")}),
                              Table(<<"O", "_", "0", "_", "0", "_", "x">>,
                                    {Row(65, 1, 1, "png-1-1-14")}) >>)),
                   [File(<<"x", ".", "s">>, 64, NotADb) EXCEPT !.isDir = TRUE] >>),
            Dir(<<"o">>, <<File(Shard(O_0_0), 998, Tile11(O_0_0))>>),
            Dir(<<"O", "O">>, <<File(Shard(O_0_0), 997, Tile11(O_0_0))>>),
            PlainSub(<<"P">>),
            [Dir(<<"1">>, <<>>) EXCEPT !.listable = FALSE] >>)

Bases == {RepoEmpty, RepoOne, RepoTwo, RepoBad, RepoStat, RepoUnlistable,
          RepoSubUnlistable, RepoBadName, RepoMixed, RepoNoise}

\* a repository.json left by an earlier scan of other contents
Stale == MarshalIndent(Repository(<<"o", "l", "d">>, Deg(10), Deg(20), 12, 1, <<"o">>, TRUE))
\* a well-formed repository.json that holds one key only
FewKeys == [Stale EXCEPT !.has = {"name"}]

Sidecars == {Absent, Malformed, EmptyFile, Stale, FewKeys}

\* whether repository.json can be created, and written
Storage == {<<TRUE, TRUE>>, <<FALSE, TRUE>>, <<TRUE, FALSE>>}

Repos ==
    {[b EXCEPT !.sidecar = s, !.canCreate = w[1], !.canWrite = w[2]] :
        b \in Bases, s \in Sidecars, w \in Storage}

Siblings ==
    { Repo(<<"y">>, RepoOne.subs),
      [Repo(<<"y">>, RepoOne.subs) EXCEPT !.sidecar = Stale],
      [Repo(<<"y">>, <<>>) EXCEPT !.listable = FALSE] }

Root(entries) == [listable |-> TRUE, entries |-> entries]

ListDisks ==
    {Root(<<r>>) : r \in Repos}
    \cup {Root(<<r, PlainFile(<<"f">>), y>>) : r \in Repos, y \in Siblings}
    \cup {[Root(<<RepoOne>>) EXCEPT !.listable = FALSE]}

\* the repository the tile fetches read
K_4_1 == <<"K", "_", "4", "_", "1">>
RepoTiles ==
    Repo(<<"t">>,
         << Dir(<<"K">>,
                << File(Shard(<<"K", "_", "1", "_", "0">>), 8192,
                        Db(<< Table(K_4_1, {Row(428, 300, 70, "png-300-70-10"),
                                            Row(384, 256, 70, "png-256-70-10")}),
                              Table(<<"K", "_", "4", "_", "0">>, {}) >>)),
                   File(Shard(<<"K", "_", "0", "_", "0">>), 50, NotADb),
                   [File(Shard(<<"K", "_", "0", "_", "1">>), 50, NotADb) EXCEPT !.statOK = FALSE] >>),
            Dir(<<"J">>,
                << File(Shard(<<"J", "_", "0", "_", "0">>), 4096,
                        Db(<< Table(<<"J", "_", "0", "_", "0">>,
                                    {Row(0, 0, 0, "png-0-0-9"), Row(63, 63, 0, "png-63-0-9")}),
                              Table(<<"J", "_", "1", "_", "1">>,
                                    {Row(390, 70, 70, "png-70-70-9")}) >>)) >>),
            Dir(<<RuneError>>,
                << File(<<RuneError, "_", "0", "_", "0", ".", "s">>, 10,
                        Db(<<Table(<<RuneError, "_", "0", "_", "0">>,
                                   {Row(0, 0, 0, "png-0-0-wrapped")})>>)) >>) >>)

FetchDisk == Root(<<RepoTiles, PlainFile(<<"f">>)>>)

----------------------------------------------------------------------------
(* What the specifications below leave at rest                              *)

\* no cancellation signal has come
NoCancel == [call |-> -1, pc |-> "", li |-> 0, sidecars |-> <<>>]

\* requests served at the same time, each on a goroutine of its own
MaxProcs == 2
Procs == 1..MaxProcs

\* a goroutine that serves no request
NoGoroutine == [pc |-> "none", li |-> 0, repos |-> <<>>, scan |-> NoScan, log |-> <<>>,
                res |-> NoListing, disk0 |-> Root(<<>>)]

\* no call of tileBound
NoTile == [tx |-> 0, ty |-> 0, zoom |-> 0]
NoTileCall == tpc = "idle" /\ ttile = NoTile /\ tm = <<>> /\ tbox = NewBox

\* no call of PerformUpdate: nothing downloaded, the executable as installed
NoUpdateCall ==
    /\ upc = "idle"
    /\ ucall = [entry |-> "none", current |-> <<>>, base |-> <<>>, latest |-> <<>>,
                min |-> <<>>, downloads |-> <<>>, answer |-> <<>>, target |-> 0,
                url |-> <<>>, filename |-> <<>>, err |-> FALSE, ret |-> "none", log |-> <<>>]
    /\ ufs = [download |-> "none", extracted |-> "none", reading |-> "none", exeh |-> "none",
              off |-> "start", body |-> [format |-> "none", hasExe |-> FALSE],
              reader |-> "nil", defers |-> {}, executable |-> "old", exited |-> FALSE]

AtRest ==
    /\ lcancel = NoCancel
    /\ gor = [p \in Procs |-> NoGoroutine]
    /\ bacc = NewBox
    /\ bin = [todo |-> <<>>, done |-> <<>>]
    /\ NoTileCall
    /\ NoUpdateCall

----------------------------------------------------------------------------
(* Specifications                                                           *)

\* listings of a root, one after the other
Init ==
    /\ disk \in ListDisks
    /\ fpc = "idle" /\ fcall = NoCall /\ fres = NoResult /\ fhandles = 0 /\ flog = <<>>
    /\ lpc = "idle" /\ li = 0 /\ lrepos = <<>> /\ lscan = NoScan /\ lres = NoListing
    /\ llog = <<>> /\ lhandles = 0 /\ lcalls = 0
    /\ ldisk0 = disk
    /\ AtRest
Next == ListRepositories_Next
Spec == Init /\ [][Next]_vars

\* one tile fetch, GetXYZ(x, y, z) on a repository of the root
InitXYZ ==
    /\ disk = FetchDisk
    /\ fpc = "call"
    /\ \E x \in Xs, y \in Ys, z \in Zs :
          fcall = [NoCall EXCEPT !.dir = 1, !.x = x, !.y = y, !.z = z]
    /\ fres = NoResult /\ fhandles = 0 /\ flog = <<>>
    /\ lpc = "idle" /\ li = 0 /\ lrepos = <<>> /\ lscan = NoScan /\ lres = NoListing
    /\ llog = <<>> /\ lhandles = 0 /\ lcalls = 0
    /\ ldisk0 = disk
    /\ AtRest
NextXYZ == GetXYZ_Call \/ GetXYZ_Stat \/ GetXYZ_Open \/ GetXYZ_Query
SpecXYZ == InitXYZ /\ [][NextXYZ]_vars

----------------------------------------------------------------------------
(* Claims about GetXYZ, checked under SpecXYZ                               *)

Letters == << "A", "B", "C", "D", "E", "F", "G", "H", "I", "J", "K", "L", "M",
              "N", "O", "P", "Q", "R", "S", "T", "U", "V", "W", "X", "Y", "Z" >>

\* C1: for every request with x >= 0 and y >= 0 and every int8 zoom, the names
\* GetXYZ computes are defined and are, with vz = max(zoom, 9) and letter the
\* character %c prints for the int8 'A'+vz (the letter number vz of the alphabet
\* up to zoom 25): subdirectory letter, shard file letter_(x div 256)_(y div 256).s,
\* table letter_(x div 64)_(y div 64), row (x mod 64) + 64*(y mod 64); the request
\* (300, 70, 10) gives K, K_1_0.s, K_4_1 and 428.
C1_Address ==
    (fcall.x >= 0 /\ fcall.y >= 0) =>
        LET x == fcall.x
            y == fcall.y
            z == fcall.z
            vz == IF z < 9 THEN 9 ELSE z
            letter == FmtC(Int8(65 + vz))
            shard == <<letter, "_">> \o FmtD(x \div 256) \o <<"_">> \o FmtD(y \div 256)
                        \o <<".", "s">>
            table == <<letter, "_">> \o FmtD(x \div 64) \o <<"_">> \o FmtD(y \div 64)
            row == (x % 64) + 64 * (y % 64)
        IN  /\ fpc = "call" => ENABLED GetXYZ_Call
            /\ vz <= 25 => letter = Letters[vz + 1]
            /\ GetXYZ_subDir(z) = <<letter>>
            /\ GetXYZ_dbFile(x, y, z) = shard
            /\ GetXYZ_tableName(x, y, z) = table
            /\ GetXYZ_index(x, y) = row
            /\ fpc # "call" => fcall.subDir = <<letter>> /\ fcall.dbFile = shard
            /\ fcall.tableName # <<>> => fcall.tableName = table /\ fcall.index = row
            /\ (x = 300 /\ y = 70 /\ z = 10 /\ fcall.tableName # <<>>) =>
                  /\ fcall.subDir = <<"K">>
                  /\ fcall.dbFile = <<"K", "_", "1", "_", "0", ".", "s">>
                  /\ fcall.tableName = <<"K", "_", "4", "_", "1">>
                  /\ fcall.index = 428

\* the fetch of (300, 70, 10) has computed all four names and returned the tile
C1_Witness ==
    /\ fpc = "done"
    /\ fcall.x = 300 /\ fcall.y = 70 /\ fcall.z = 10
    /\ fcall.tableName = K_4_1 /\ fcall.index = 428
    /\ fres = DataResult("png-300-70-10")

\* whether the directory tree holds a file at subDir/dbFile of repository r
OnDisk(r, subDir, dbFile) ==
    \E i \in 1..Len(r.subs) :
        /\ r.subs[i].name = subDir
        /\ \E j \in 1..Len(r.subs[i].files) : r.subs[i].files[j].name = dbFile

Opens(log) == {j \in 1..Len(log) : log[j].op = "sql.Open"}

\* C2: sql.Open is never called before os.Stat has returned; and when the shard
\* file the fetch addresses is not on disk, the fetch returns the "not exist"
\* error after os.Stat alone: sql.Open is not called and no handle is open.
C2_NoOpenWhenAbsent ==
    /\ \A j \in Opens(flog) : \E i \in 1..(j - 1) : flog[i].op = "os.Stat"
    /\ fhandles > 0 => Opens(flog) # {}
    /\ (fpc \in {"open", "query", "done"}
          /\ ~OnDisk(disk.entries[fcall.dir], fcall.subDir, fcall.dbFile)) =>
            /\ fpc = "done"
            /\ fres = ErrResult("not exist")
            /\ Opens(flog) = {}
            /\ fhandles = 0
            /\ Len(flog) = 1 /\ flog[1].op = "os.Stat"

\* a fetch of a tile whose shard file is not on disk has returned
C2_Witness ==
    /\ fpc = "done"
    /\ ~OnDisk(disk.entries[fcall.dir], fcall.subDir, fcall.dbFile)
    /\ fres = ErrResult("not exist")
    /\ fcall.x = 300 /\ fcall.y = 256 /\ fcall.z = 10

----------------------------------------------------------------------------
(* Claims about ListRepositories, checked under Spec                        *)
(* llog and ldisk0 belong to the listing in flight or, when lpc = "idle",   *)
(* to the listing that returned last; lres belongs to the listing that      *)
(* returned last.                                                           *)

Called == llog # <<>> /\ ldisk0.listable
DirIndexes == {k \in 1..Len(ldisk0.entries) : ldisk0.entries[k].isDir}

\* the listing in flight is done with entry k of the root
Handled(k) == Called /\ (lpc = "idle" \/ (lpc = "loop" /\ li > k))

\* the place in the returned sequence of the descriptor of entry k
Pos(k) == Cardinality({j \in DirIndexes : j <= k})

Parses(doc) == doc.kind = "json"

\* the shard files a scan of repository r finds
RECURSIVE Flatten(_)
Flatten(seqs) == IF seqs = <<>> THEN <<>> ELSE Head(seqs) \o Flatten(Tail(seqs))
ShardFiles(r) == Flatten([i \in 1..Len(listSubDir(r)) |-> listAllFile(listSubDir(r)[i])])

RECURSIVE SumSizes(_)
SumSizes(files) == IF files = <<>> THEN 0 ELSE Head(files).size + SumSizes(Tail(files))

\* what one listing gives for repository r, from r alone
ScanEntry(r) ==
    LET sc == analysis_scan(0, r) IN
    IF sc.err \/ ~r.canCreate \/ ~r.canWrite THEN Placeholder(r.name)
    ELSE analysis_repo(r, sc.scan)
ExpectedEntry(r) == IF Parses(r.sidecar) THEN Decode(r.sidecar) ELSE ScanEntry(r)

\* C3: a listing of a root that holds one subdirectory without shard files (and
\* without repository.json) returns for it the placeholder (pared = false, lng
\* 113, lat 40, zoom 10, size 0) and leaves the subdirectory without
\* repository.json.
C3_EmptyRepositoryPlaceholder ==
    (/\ lpc = "idle" /\ lcalls = 1 /\ Called
     /\ Len(ldisk0.entries) = 1 /\ ldisk0.entries[1].isDir
     /\ ldisk0.entries[1].listable
     /\ ShardFiles(ldisk0.entries[1]) = <<>>
     /\ ldisk0.entries[1].sidecar = Absent) =>
        /\ lres.repos = <<Placeholder(ldisk0.entries[1].name)>>
        /\ disk.entries[1].sidecar = Absent

\* C4: when repository.json of a subdirectory parses, the listing returns for it
\* exactly the parsed document, its only system call about that subdirectory is
\* the os.Open of repository.json (no directory is read, no database is opened,
\* repository.json is neither created nor written), and the subdirectory is
\* left as it was.
C4_CacheHit ==
    \A k \in DirIndexes :
        (Called /\ Parses(ldisk0.entries[k].sidecar)) =>
            /\ disk.entries[k] = ldisk0.entries[k]
            /\ \A e \in Events(k) : e.op = "os.Open" /\ e.out = "ok"
            /\ Handled(k) => /\ Len(LogOf(k)) = 1
                             /\ lrepos[Pos(k)] = Decode(ldisk0.entries[k].sidecar)

\* a listing has returned the stale repository.json of a repository whose shards
\* would scan to another descriptor
C4_Witness ==
    /\ lpc = "idle" /\ lcalls = 1
    /\ ldisk0.entries[1].sidecar = Stale
    /\ ldisk0.entries[1].subs = RepoOne.subs
    /\ lres.repos[1] = Repository(<<"o", "l", "d">>, Deg(10), Deg(20), 12, 1, <<"o">>, TRUE)
    /\ lres.repos[1] # ScanEntry(ldisk0.entries[1])

ValidUTF8(s) == \A i \in 1..Len(s) : s[i] # "<0xFF>"

\* the original C5: after a scan succeeds repository.json holds the descriptor the
\* scan returned, and the next listing returns the identical descriptor without
\* opening a shard database.
C5_Original ==
    /\ \A k \in Scanned :
          /\ Parses(disk.entries[k].sidecar)
          /\ Decode(disk.entries[k].sidecar) = lrepos[Pos(k)]
    /\ \A k \in lres.scanned :
          (Handled(k) /\ lpc # "idle") =>
              /\ lrepos[Pos(k)] = lres.repos[Pos(k)]
              /\ \A e \in Events(k) : e.op # "sql.Open"

\* C5 (amended): after a scan succeeds repository.json holds the descriptor the
\* scan returned (pared = true, zoom 14, lng, lat, size) with name and url coerced
\* to valid UTF-8; the next listing returns exactly that document without opening
\* a shard database, which is the identical descriptor when the directory name is
\* valid UTF-8.
C5_SidecarRoundTrip ==
    /\ \A k \in Scanned :
          LET r == disk.entries[k]
              got == lrepos[Pos(k)]
          IN  /\ Parses(r.sidecar)
              /\ got.Pared /\ got.Zoom = 14 /\ got.Name = r.name /\ got.Url = r.name
              /\ Decode(r.sidecar) = [got EXCEPT !.Name = ToValidUTF8(r.name),
                                                 !.Url = ToValidUTF8(r.name)]
              /\ ValidUTF8(r.name) => Decode(r.sidecar) = got
    /\ \A k \in lres.scanned :
          (Handled(k) /\ lpc # "idle") =>
              /\ lrepos[Pos(k)] = [lres.repos[Pos(k)] EXCEPT
                                      !.Name = ToValidUTF8(ldisk0.entries[k].name),
                                      !.Url = ToValidUTF8(ldisk0.entries[k].name)]
              /\ ValidUTF8(ldisk0.entries[k].name) => lrepos[Pos(k)] = lres.repos[Pos(k)]
              /\ \A e \in Events(k) : e.op # "sql.Open"
              /\ disk.entries[k] = ldisk0.entries[k]

\* the second listing has handled a repository that the first listing scanned,
\* and holds the same descriptor for it
C5_Witness ==
    /\ lcalls = 1 /\ lpc = "loop" /\ li = 2
    /\ 1 \in lres.scanned
    /\ ldisk0.entries[1].subs = RepoTwo.subs
    /\ lrepos[1] = lres.repos[1]
    /\ lrepos[1].Pared /\ lrepos[1].Size = 12288

\* C6: when a listing returns the placeholder for a subdirectory because its scan
\* failed, the listing has written no descriptor: repository.json of that
\* subdirectory is absent or does not parse; and the next listing scans the
\* subdirectory again.
C6_PlaceholderNotPersisted ==
    /\ \A k \in Failed :
          /\ lrepos[Pos(k)] = Placeholder(disk.entries[k].name)
          /\ ~Parses(disk.entries[k].sidecar)
          /\ \A e \in Events(k) : ~(e.op = "file.Write" /\ e.out = "ok")
    /\ \A k \in lres.failed :
          (lcalls >= 1 /\ lpc # "idle" /\ Handled(k)) =>
              \E e \in Events(k) : e.op = "os.ReadDir" /\ e.path = disk.entries[k].name

\* the second listing has scanned again a repository whose scan failed, at
\* os.Create, in the first listing
C6_Witness ==
    /\ lcalls = 1 /\ lpc = "loop" /\ li = 2
    /\ 1 \in lres.failed /\ 1 \in Failed
    /\ lres.repos[1] = Placeholder(<<"a">>)
    /\ \E e \in Events(1) : e.op = "os.Create" /\ e.out = "err"

\* C7: a listing of a readable root returns without error one descriptor for
\* every subdirectory and none for another entry, in the order of the
\* directory listing; the descriptor of a subdirectory depends on that
\* subdirectory alone, so a failure of a sibling does not change it.
C7_OneEntryPerDirectory ==
    /\ (lpc = "idle" /\ lcalls >= 1 /\ Called) =>
          /\ ~lres.err
          /\ Len(lres.repos) = Cardinality(DirIndexes)
          /\ \A k \in DirIndexes : lres.repos[Pos(k)] = ExpectedEntry(ldisk0.entries[k])
    /\ (Called /\ lpc = "loop") =>
          Len(lrepos) = Cardinality({k \in DirIndexes : k < li})

\* a listing has returned the placeholder for a repository that cannot be read
\* and, after it, the scanned descriptor of its sibling
C7_Witness ==
    /\ lpc = "idle" /\ lcalls = 1
    /\ Len(ldisk0.entries) = 3
    /\ ldisk0.entries[1].name = <<"u">> /\ ldisk0.entries[1].sidecar = Absent
    /\ ~ldisk0.entries[2].isDir
    /\ Len(lres.repos) = 2
    /\ lres.repos[1] = Placeholder(<<"u">>)
    /\ lres.repos[2].Name = <<"y">> /\ lres.repos[2].Pared /\ lres.repos[2].Size = 4096

\* the descriptors with pared = true that the scans of the listing in flight
\* have produced: the one between the scan and the write, and those returned
Produced ==
    {<<k, lrepos[Pos(k)]>> : k \in Scanned}
    \cup (IF lpc \in {"create", "write"} THEN {<<li, lscan.repo>>} ELSE {})

\* the shard files whose size a scan adds: calExtend and os.Stat both succeed
Counted(r) == SelectSeq(ShardFiles(r), LAMBDA f : ~calExtend(f).err /\ f.statOK)

ErrorsOf(k) == {e \in Events(k) : e.out = "err" /\ e.op # "analysisRepository"}
ScanErrorsOf(k) == {e \in ErrorsOf(k) : e.op \in {"os.ReadDir", "calExtend", "os.Stat"}}

Unparsable == {"malformed", "empty", "partial"}

\* C10: a repository.json that exists and does not parse is handled like an
\* absent one: the listing scans the subdirectory, returns for it what it would
\* return were the file absent, and when the scan succeeds repository.json
\* holds the scanned descriptor and parses.
C10_MalformedLikeAbsent ==
    \A k \in DirIndexes :
        (Handled(k) /\ ldisk0.entries[k].sidecar.kind \in Unparsable) =>
            /\ LogOf(k)[1].op = "os.Open" /\ LogOf(k)[1].out = "parse"
            /\ LogOf(k)[2].op = "os.ReadDir" /\ LogOf(k)[2].path = ldisk0.entries[k].name
            /\ lrepos[Pos(k)] = ExpectedEntry([ldisk0.entries[k] EXCEPT !.sidecar = Absent])
            /\ k \in Scanned =>
                  /\ Parses(disk.entries[k].sidecar)
                  /\ disk.entries[k].sidecar = MarshalIndent(lrepos[Pos(k)])

\* a listing has scanned a repository whose repository.json was malformed and
\* has replaced the file
C10_Witness ==
    /\ lpc = "idle" /\ lcalls = 1
    /\ ldisk0.entries[1].sidecar = Malformed
    /\ ldisk0.entries[1].subs = RepoOne.subs
    /\ 1 \in Scanned
    /\ lres.repos[1].Pared /\ lres.repos[1].Size = 4096
    /\ Parses(disk.entries[1].sidecar)

----------------------------------------------------------------------------
(* More claims about GetXYZ, checked under SpecXYZ                          *)

\* what a fetch that addresses subDir/dbFile, tableName and index returns
FetchOf(r, subDir, dbFile, tableName, index) ==
    IF StatShard(r, subDir, dbFile) = "ENOENT" THEN ErrResult("not exist")
    ELSE QueryData(r, subDir, dbFile, tableName, index)

\* C13: for x >= 0, y >= 0 and every zoom below 9 the fetch addresses what the
\* fetch of (x, y, 9) addresses: subdirectory J, shard file J_(x div 256)_(y div
\* 256).s, table J_(x div 64)_(y div 64) and the same row, and returns what that
\* fetch returns.
C13_ZoomClamp ==
    (fcall.x >= 0 /\ fcall.y >= 0 /\ fcall.z < 9) =>
        LET x == fcall.x
            y == fcall.y
            shard9 == <<"J", "_">> \o FmtD(x \div 256) \o <<"_">> \o FmtD(y \div 256)
                         \o <<".", "s">>
            table9 == <<"J", "_">> \o FmtD(x \div 64) \o <<"_">> \o FmtD(y \div 64)
        IN  /\ GetXYZ_subDir(fcall.z) = GetXYZ_subDir(9)
            /\ GetXYZ_dbFile(x, y, fcall.z) = GetXYZ_dbFile(x, y, 9)
            /\ GetXYZ_tableName(x, y, fcall.z) = GetXYZ_tableName(x, y, 9)
            /\ fpc # "call" => fcall.subDir = <<"J">> /\ fcall.dbFile = shard9
            /\ fpc = "query" => fcall.tableName = table9
            /\ fpc = "done" =>
                  fres = FetchOf(disk.entries[fcall.dir], <<"J">>, shard9, table9,
                                 GetXYZ_index(x, y))

\* the fetch of (70, 70, 3) has returned the tile that is stored for (70, 70, 9)
C13_Witness ==
    /\ fpc = "done"
    /\ fcall.x = 70 /\ fcall.y = 70 /\ fcall.z = 3
    /\ fcall.subDir = <<"J">> /\ fcall.tableName = <<"J", "_", "1", "_", "1">>
    /\ fres = DataResult("png-70-70-9")

\* C14: for x >= 0 and y >= 0 the row index lies in 0..4095, and in the 64 x 64
\* table block of (x, y) the 64 tiles of line dy have between them the 64 row
\* indices 64*dy .. 64*dy+63: the 4096 tiles of the block have every row index
\* of 0..4095, no two of them the same.
C14_RowBijection ==
    (fcall.x >= 0 /\ fcall.y >= 0) =>
        LET x == fcall.x
            y == fcall.y
            x0 == 64 * (x \div 64)
            y0 == 64 * (y \div 64)
        IN  /\ GetXYZ_index(x, y) \in 0..4095
            /\ fpc = "query" =>
                  /\ fcall.index = GetXYZ_index(x, y)
                  /\ fcall.index \in 0..4095
                  /\ x - x0 \in 0..63 /\ y - y0 \in 0..63
                  /\ \A dy \in 0..63 :
                        {GetXYZ_index(x0 + dx, y0 + dy) : dx \in 0..63} = (64 * dy)..(64 * dy + 63)

\* the fetch of (63, 0, 9) has read row 63, the last of the first line of its block
C14_Witness ==
    /\ fpc = "done"
    /\ fcall.x = 63 /\ fcall.y = 0 /\ fcall.z = 9
    /\ fcall.index = 63
    /\ fres = DataResult("png-63-0-9")

\* the shard file the fetch addresses exists and is a database that opens
Openable ==
    /\ StatShard(disk.entries[fcall.dir], fcall.subDir, fcall.dbFile) = "ok"
    /\ LET f == ShardAt(disk.entries[fcall.dir], fcall.subDir, fcall.dbFile) IN
       ~f.isDir /\ f.db.valid

\* the table the fetch addresses, as a set of at most one table
AddressedTables ==
    LET f == ShardAt(disk.entries[fcall.dir], fcall.subDir, fcall.dbFile) IN
    {f.db.tables[i] : i \in {j \in 1..Len(f.db.tables) : f.db.tables[j].name = fcall.tableName}}

\* C15: a fetch on a shard file that exists and opens returns the "not exist"
\* failure, the one returned for a missing shard file, when the table does not
\* exist or holds no row with the computed ID; another failure is returned only
\* when the shard file cannot be opened or queried.
C15_NotFoundKinds ==
    fpc = "done" =>
        /\ (Openable /\ \A t \in AddressedTables : \A row \in t.rows : row.ID # fcall.index) =>
              fres = ErrResult("not exist")
        /\ (fres.kind = "err" /\ fres.msg # "not exist") => ~Openable

\* C16: a fetch that succeeds returns the Data of the row whose ID is the computed
\* row index, in the computed table of the computed shard file; that row is the
\* only one with this ID, and it is the row stored for the tile (x, y).
C16_PayloadOfAddressedRow ==
    fres.kind = "data" =>
        LET x == fcall.x
            y == fcall.y
            vz == IF fcall.z < 9 THEN 9 ELSE fcall.z
            letter == FmtC(Int8(65 + vz))
            shard == <<letter, "_">> \o FmtD(x \div 256) \o <<"_">> \o FmtD(y \div 256)
                        \o <<".", "s">>
            table == <<letter, "_">> \o FmtD(x \div 64) \o <<"_">> \o FmtD(y \div 64)
            id == (x % 64) + 64 * (y % 64)
            r == disk.entries[fcall.dir]
            Rows == {row \in UNION {t.rows : t \in
                        {r.subs[i].files[j].db.tables[k] :
                            <<i, j, k>> \in {u \in (1..Len(r.subs)) \X (1..3) \X (1..2) :
                                /\ r.subs[u[1]].name = <<letter>>
                                /\ u[2] <= Len(r.subs[u[1]].files)
                                /\ r.subs[u[1]].files[u[2]].name = shard
                                /\ u[3] <= Len(r.subs[u[1]].files[u[2]].db.tables)
                                /\ r.subs[u[1]].files[u[2]].db.tables[u[3]].name = table}}} :
                     row.ID = id}
        IN  /\ fpc = "done" /\ fhandles = 0
            /\ x >= 0 /\ y >= 0
            /\ Cardinality(Rows) = 1
            /\ \A row \in Rows : fres.data = row.Data /\ row.X = x /\ row.Y = y

\* the fetch of (0, 0, 9) has returned the payload of row 0 and not that of row
\* 63 of the same table
C16_Witness ==
    /\ fpc = "done"
    /\ fcall.x = 0 /\ fcall.y = 0 /\ fcall.z = 9
    /\ fcall.index = 0
    /\ fres = DataResult("png-0-0-9")
    /\ fres.data # "png-63-0-9"

----------------------------------------------------------------------------
(* Box: an accumulator that starts as NewBox() and is extended box by box,  *)
(* as box is in analysisRepository (lines 125, 141) and calExtend (lines    *)
(* 223, 241-242)                                                            *)

\* boxes added to one accumulator
MaxBoxes == 3

\* the boxes of tiles, as tileBound gives them, and a box that is one point
RealBoxes ==
    {tileBound(0, 0, 14), tileBound(1, 1, 14), tileBound(0, 0, 1), tileBound(1, 1, 1),
     [minx |-> Deg(113), miny |-> Deg(40), maxx |-> Deg(113), maxy |-> Deg(40)]}

RECURSIVE SeqsOver(_, _)
SeqsOver(S, n) ==
    IF n = 0 THEN {<<>>}
    ELSE LET shorter == SeqsOver(S, n - 1) IN
         shorter \cup {Append(q, e) : q \in {t \in shorter : Len(t) = n - 1}, e \in S}

\* box.extend(b) for the next box b
Box_extend ==
    /\ bin.todo # <<>>
    /\ bacc' = extend(bacc, Head(bin.todo))
    /\ bin' = [todo |-> Tail(bin.todo), done |-> Append(bin.done, Head(bin.todo))]
    /\ UNCHANGED <<disk, fvars, lvars, lcancel, gor, zvars>>

InitBox ==
    /\ disk = Root(<<>>)
    /\ fpc = "idle" /\ fcall = NoCall /\ fres = NoResult /\ fhandles = 0 /\ flog = <<>>
    /\ lpc = "idle" /\ li = 0 /\ lrepos = <<>> /\ lscan = NoScan /\ lres = NoListing
    /\ llog = <<>> /\ lhandles = 0 /\ lcalls = 0
    /\ ldisk0 = disk
    /\ lcancel = NoCancel
    /\ gor = [p \in Procs |-> NoGoroutine]
    /\ bacc = NewBox
    /\ NoTileCall
    /\ NoUpdateCall
    /\ \E q \in SeqsOver(RealBoxes, MaxBoxes) : bin = [todo |-> q, done |-> <<>>]
NextBox == Box_extend
SpecBox == InitBox /\ [][NextBox]_vars

\* the boxes added so far
Added == {bin.done[i] : i \in 1..Len(bin.done)}

\* C19: the accumulator is NewBox before a box is added; after one box B is added
\* to NewBox it is B; adding B again leaves it B; and after any boxes are added it
\* is their union, the least minx and miny and the greatest maxx and maxy of the
\* boxes added, whatever the order they were added in.
C19_BoxUnion ==
    /\ bin.done = <<>> => bacc = NewBox
    /\ Len(bin.done) = 1 => bacc = bin.done[1]
    /\ (bin.done # <<>> /\ \A b \in Added : b = bin.done[1]) => bacc = bin.done[1]
    /\ bin.done # <<>> =>
          /\ bacc.minx \in {b.minx : b \in Added} /\ \A b \in Added : bacc.minx <= b.minx
          /\ bacc.miny \in {b.miny : b \in Added} /\ \A b \in Added : bacc.miny <= b.miny
          /\ bacc.maxx \in {b.maxx : b \in Added} /\ \A b \in Added : bacc.maxx >= b.maxx
          /\ bacc.maxy \in {b.maxy : b \in Added} /\ \A b \in Added : bacc.maxy >= b.maxy
          /\ \A b \in Added : extend(bacc, b) = bacc
    /\ bin.todo # <<>> => ENABLED Box_extend

\* the tiles (1, 1) and then (0, 0) of zoom 14 have been added: the accumulator
\* spans both, from the west and north of (0, 0) to the east and south of (1, 1)
C19_Witness ==
    /\ bin.done = <<tileBound(1, 1, 14), tileBound(0, 0, 14)>>
    /\ bacc.minx = Deg(-180) /\ bacc.maxy = 89182572
    /\ bacc.maxx = Deg(-180) + 2 * 23040 /\ bacc.miny = 89178596
    /\ bacc # tileBound(0, 0, 14) /\ bacc # tileBound(1, 1, 14)

----------------------------------------------------------------------------
(* The centre of a scanned repository, checked under Spec                   *)

\* the boxes of the two corner tiles of a table that holds rows
CornerBoxes(t) ==
    LET xs == {row.X : row \in t.rows}
        ys == {row.Y : row \in t.rows}
        z == Ord(t.name[1]) - 65
    IN  {tileBound(MinOf(xs), MinOf(ys), z), tileBound(MaxOf(xs), MaxOf(ys), z)}

\* the tables of a shard file whose name has three parts
MatchingTables(f) ==
    IF ~f.db.valid THEN {}
    ELSE {f.db.tables[i] : i \in {j \in 1..Len(f.db.tables) :
                                      SplitCount(f.db.tables[j].name, "_") = 3}}

\* the union of a set of boxes; NewBox when there is none
UnionOf(boxes) ==
    [minx |-> MinOf({b.minx : b \in boxes} \cup {MaxFloat64}),
     miny |-> MinOf({b.miny : b \in boxes} \cup {MaxFloat64}),
     maxx |-> MaxOf({b.maxx : b \in boxes} \cup {-MaxFloat64}),
     maxy |-> MaxOf({b.maxy : b \in boxes} \cup {-MaxFloat64})]

Midpoint(box) == [lng |-> (box.minx + box.maxx) \div 2, lat |-> (box.miny + box.maxy) \div 2]

\* the corner boxes of every matching table with rows of every shard file
AllCornerBoxes(r) ==
    UNION {CornerBoxes(t) :
             t \in {u \in UNION {MatchingTables(ShardFiles(r)[i]) : i \in 1..Len(ShardFiles(r))} :
                       u.rows # {}}}

\* the corner boxes of the matching tables of the shard files that are databases
\* and in which every matching table holds rows
ReadCornerBoxes(r) ==
    UNION {CornerBoxes(t) :
             t \in UNION {MatchingTables(ShardFiles(r)[i]) :
                            i \in {j \in 1..Len(ShardFiles(r)) :
                                      /\ ShardFiles(r)[j].db.valid
                                      /\ \A u \in MatchingTables(ShardFiles(r)[j]) : u.rows # {}}}}

----------------------------------------------------------------------------
(* A tile fetch and listings of the same root, served at the same time      *)

\* zooms of the fetches: one below the clamp, and the zoom of the stored tiles
ServeZs == {3, 14}

ServeDisks ==
    { Root(<<RepoOne>>), Root(<<RepoBad>>),
      Root(<<[RepoOne EXCEPT !.sidecar = Stale]>>),
      Root(<<[RepoOne EXCEPT !.sidecar = FewKeys]>>),
      Root(<<[RepoOne EXCEPT !.sidecar = Malformed]>>),
      Root(<<[RepoOne EXCEPT !.canWrite = FALSE]>>) }
    \cup {Root(<<RepoOne, PlainFile(<<"f">>), y>>) : y \in Siblings}

InitServe ==
    /\ disk \in ServeDisks
    /\ fpc = "call"
    /\ \E x \in Xs, y \in Ys, z \in ServeZs :
          fcall = [NoCall EXCEPT !.dir = 1, !.x = x, !.y = y, !.z = z]
    /\ fres = NoResult /\ fhandles = 0 /\ flog = <<>>
    /\ lpc = "idle" /\ li = 0 /\ lrepos = <<>> /\ lscan = NoScan /\ lres = NoListing
    /\ llog = <<>> /\ lhandles = 0 /\ lcalls = 0
    /\ ldisk0 = disk
    /\ AtRest
NextServe ==
    \/ GetXYZ_Call \/ GetXYZ_Stat \/ GetXYZ_Open \/ GetXYZ_Query
    \/ ListRepositories_Call \/ ListRepositories_Skip \/ ListRepositories_Read
    \/ analysisRepository_Scan \/ analysisRepository_Create \/ analysisRepository_Write
    \/ ListRepositories_Return
SpecServe == InitServe /\ [][NextServe]_vars

\* an entry of the root without its repository.json
Shards(e) == [e EXCEPT !.sidecar = Absent]

\* the tree differs from the tree the listing in flight started from in
\* repository.json files at most, and in those only where the listing created it
OnlySidecarsWritten ==
    /\ disk.listable = ldisk0.listable
    /\ Len(disk.entries) = Len(ldisk0.entries)
    /\ \A k \in 1..Len(disk.entries) :
          /\ Shards(disk.entries[k]) = Shards(ldisk0.entries[k])
          /\ disk.entries[k].sidecar # ldisk0.entries[k].sidecar =>
                \E e \in Events(k) : e.op = "os.Create" /\ e.out = "ok"
    /\ \A j \in 1..Len(llog) :
          llog[j].op \in {"os.Create", "file.Write"} =>
              llog[j].path = Join(disk.entries[llog[j].repo].name, SidecarName)

\* the fetch has made read calls only and holds a handle only between sql.Open
\* and its return
FetchReadsOnly ==
    /\ \A j \in 1..Len(flog) : flog[j].op \in {"os.Stat", "sql.Open", "db.Query"}
    /\ fhandles = IF fpc = "query" THEN 1 ELSE 0
    /\ fpc = "done" => fres # NoResult /\ fhandles = 0

\* C17: no step of a fetch or of a listing changes a shard file, a directory or
\* anything but a repository.json; a step of the fetch changes no file at all; the
\* fetch has no database handle open once it has returned, whatever it returned;
\* and the files a listing creates or writes are repository.json files.
C17_ShardsReadOnly ==
    /\ [](OnlySidecarsWritten /\ FetchReadsOnly)
    /\ [][ /\ fpc' # fpc => disk' = disk
           /\ \A k \in 1..Len(disk.entries) : Shards(disk'.entries[k]) = Shards(disk.entries[k])
         ]_vars

\* the fetch has returned a tile and closed its handle while a listing that has
\* written repository.json of the same repository has returned
C17_Witness ==
    /\ fpc = "done" /\ fres = DataResult("png-0-0-14") /\ fhandles = 0
    /\ lpc = "idle" /\ lcalls = 1
    /\ ldisk0.entries[1].sidecar = Absent
    /\ Parses(disk.entries[1].sidecar)
    /\ Shards(disk.entries[1]) = Shards(RepoOne)

----------------------------------------------------------------------------
(* Listings of the same root served at the same time, one goroutine each.   *)
(* The steps are those of ListRepositories and analysisRepository above, on *)
(* the locals gor[p] of goroutine p and on the one directory tree.          *)

GorEvents(p, k) == {gor[p].log[j] : j \in {i \in 1..Len(gor[p].log) : gor[p].log[i].repo = k}}

\* file.Write(jsonData) on the handle os.Create returned: the handle is at offset
\* 0 and is not in append mode, so the bytes go over what the file holds there
WriteAt_mut_append(cur, doc) ==
    IF cur.kind = "empty" THEN doc
    ELSE [kind |-> "mixed", has |-> {}, obj |-> doc.obj]
WriteAt(cur, doc) ==
    IF cur.kind \in {"empty", "partial"} \/ cur = doc THEN doc
    ELSE [kind |-> "mixed", has |-> {}, obj |-> doc.obj]

\* lines 60-64
ListRepositories_CallOn(p) ==
    /\ gor[p].pc = "none"
    /\ gor' = [gor EXCEPT ![p] =
                 IF disk.listable
                 THEN [@ EXCEPT !.pc = "loop", !.li = 1, !.disk0 = disk,
                                !.log = <<Ev("os.ReadDir", 0, BaseDir, "ok")>>]
                 ELSE [@ EXCEPT !.pc = "done", !.disk0 = disk,
                                !.log = <<Ev("os.ReadDir", 0, BaseDir, "err")>>,
                                !.res = [repos |-> <<>>, err |-> TRUE, failed |-> {},
                                         scanned |-> {}]]]
    /\ UNCHANGED <<disk, fvars, lvars, lcancel, bacc, bin, zvars>>

\* lines 66-67
ListRepositories_SkipOn(p) ==
    /\ gor[p].pc = "loop"
    /\ gor[p].li <= Len(disk.entries)
    /\ ~ListRepositories_isDir(disk.entries[gor[p].li])
    /\ gor' = [gor EXCEPT ![p].li = @ + 1]
    /\ UNCHANGED <<disk, fvars, lvars, lcancel, bacc, bin, zvars>>

\* lines 68-69 and 84-86
ListRepositories_ReadOn(p) ==
    /\ gor[p].pc = "loop"
    /\ gor[p].li <= Len(disk.entries)
    /\ ListRepositories_isDir(disk.entries[gor[p].li])
    /\ LET k == gor[p].li
           r == disk.entries[k]
           info == readRepositoryInfo(r)
           log == Append(gor[p].log, Ev("os.Open", k, Join(r.name, SidecarName),
                                        IF info.err = "" THEN "ok" ELSE info.err))
       IN  gor' = [gor EXCEPT ![p] =
                     IF info.err = ""
                     THEN [@ EXCEPT !.log = log, !.li = k + 1,
                                    !.repos = ListRepositories_onRepo(@, info.repo)]
                     ELSE [@ EXCEPT !.log = log, !.pc = "scan"]]
    /\ UNCHANGED <<disk, fvars, lvars, lcancel, bacc, bin, zvars>>

\* the error return of analysisRepository and lines 71-80 of its caller
analysis_failOn(g, k, log) ==
    [g EXCEPT !.log = log \o <<Ev("analysisRepository", k, disk.entries[k].name, "err")>>,
              !.repos = ListRepositories_onError(@, disk.entries[k].name),
              !.li = k + 1, !.pc = "loop", !.scan = NoScan]

\* analysisRepository, lines 113-161
analysisRepository_ScanOn(p) ==
    /\ gor[p].pc = "scan"
    /\ LET k == gor[p].li
           r == disk.entries[k]
           sc == analysis_scan(k, r)
           repo == analysis_repo(r, sc.scan)
       IN  gor' = [gor EXCEPT ![p] =
                     IF sc.err THEN analysis_failOn(@, k, @.log \o sc.scan.log)
                     ELSE [@ EXCEPT !.log = @ \o sc.scan.log, !.pc = "create",
                                    !.scan = [repo |-> repo, jsonData |-> MarshalIndent(repo)]]]
    /\ UNCHANGED <<disk, fvars, lvars, lcancel, bacc, bin, zvars>>

\* analysisRepository, lines 164-168
analysisRepository_CreateOn(p) ==
    /\ gor[p].pc = "create"
    /\ LET k == gor[p].li
           r == disk.entries[k]
           log == Append(gor[p].log, Ev("os.Create", k, Join(r.name, SidecarName),
                                        IF r.canCreate THEN "ok" ELSE "err"))
       IN  IF r.canCreate
           THEN /\ disk' = [disk EXCEPT !.entries[k].sidecar = EmptyFile]
                /\ gor' = [gor EXCEPT ![p].log = log, ![p].pc = "write"]
           ELSE /\ gor' = [gor EXCEPT ![p] = analysis_failOn(@, k, log)]
                /\ UNCHANGED disk
    /\ UNCHANGED <<fvars, lvars, lcancel, bacc, bin, zvars>>

\* analysisRepository, lines 171-176, and lines 81-83 of its caller
analysisRepository_WriteOn(p) ==
    /\ gor[p].pc = "write"
    /\ LET k == gor[p].li
           r == disk.entries[k]
           log == Append(gor[p].log, Ev("file.Write", k, Join(r.name, SidecarName),
                                        IF r.canWrite THEN "ok" ELSE "err"))
       IN  IF r.canWrite
           THEN /\ disk' = [disk EXCEPT !.entries[k].sidecar = WriteAt(@, gor[p].scan.jsonData)]
                /\ gor' = [gor EXCEPT ![p] =
                             [@ EXCEPT !.log = Append(log, Ev("analysisRepository", k, r.name, "ok")),
                                       !.repos = ListRepositories_onRepo(@, gor[p].scan.repo),
                                       !.li = k + 1, !.pc = "loop", !.scan = NoScan]]
           ELSE /\ disk' = [disk EXCEPT !.entries[k].sidecar = PartialFile]
                /\ gor' = [gor EXCEPT ![p] = analysis_failOn(@, k, log)]
    /\ UNCHANGED <<fvars, lvars, lcancel, bacc, bin, zvars>>

\* line 89
ListRepositories_ReturnOn(p) ==
    /\ gor[p].pc = "loop"
    /\ gor[p].li > Len(disk.entries)
    /\ gor' = [gor EXCEPT ![p].pc = "done",
                          ![p].res = [repos |-> gor[p].repos, err |-> FALSE,
                                      failed |-> {k \in 1..Len(disk.entries) :
                                                    \E e \in GorEvents(p, k) :
                                                       e.op = "analysisRepository" /\ e.out = "err"},
                                      scanned |-> {k \in 1..Len(disk.entries) :
                                                    \E e \in GorEvents(p, k) :
                                                       e.op = "analysisRepository" /\ e.out = "ok"}]]
    /\ UNCHANGED <<disk, fvars, lvars, lcancel, bacc, bin, zvars>>

ParBases == {RepoTwo, RepoEmpty, RepoBadName}

ParDisks ==
    {Root(<<[b EXCEPT !.sidecar = s, !.canCreate = w[1], !.canWrite = w[2]]>>) :
        b \in ParBases, s \in {Absent, Malformed, Stale}, w \in Storage}
    \cup {Root(<<PlainFile(<<"f">>), RepoOne>>), Root(<<RepoUnlistable>>)}
    \cup {[Root(<<RepoOne>>) EXCEPT !.listable = FALSE]}

InitPar ==
    /\ disk \in ParDisks
    /\ fpc = "idle" /\ fcall = NoCall /\ fres = NoResult /\ fhandles = 0 /\ flog = <<>>
    /\ lpc = "idle" /\ li = 0 /\ lrepos = <<>> /\ lscan = NoScan /\ lres = NoListing
    /\ llog = <<>> /\ lhandles = 0 /\ lcalls = 0
    /\ ldisk0 = disk
    /\ AtRest
NextPar ==
    \E p \in Procs :
        \/ ListRepositories_CallOn(p)
        \/ ListRepositories_SkipOn(p)
        \/ ListRepositories_ReadOn(p)
        \/ analysisRepository_ScanOn(p)
        \/ analysisRepository_CreateOn(p)
        \/ analysisRepository_WriteOn(p)
        \/ ListRepositories_ReturnOn(p)
SpecPar == InitPar /\ [][NextPar]_vars

----------------------------------------------------------------------------
(* Claims about concurrent listings, checked under SpecPar                  *)

\* goroutine p is between the start of its scan of entry k and the end of its
\* write of repository.json
Scanning(p, k) == gor[p].li = k /\ gor[p].pc \in {"scan", "create", "write"}

\* C11: no two goroutines are at the same time between the start of the scan of
\* the same repository directory and the completion of the write of its
\* repository.json.
C11_ScanLock ==
    \A p \in Procs : \A q \in Procs \ {p} : \A k \in 1..Len(disk.entries) :
        ~(Scanning(p, k) /\ Scanning(q, k))

\* the place of the descriptor of entry k in the sequence a goroutine returns
GorPos(k) == Cardinality({j \in 1..k : disk.entries[j].isDir})

\* the goroutines whose scan of entry k has succeeded
ScannedBy(k) ==
    {p \in Procs : \E e \in GorEvents(p, k) : e.op = "analysisRepository" /\ e.out = "ok"}

\* the descriptor of repository r, from its shard files
Correct(r) ==
    LET mid == Midpoint(UnionOf(ReadCornerBoxes(r))) IN
    Repository(r.name, mid.lng, mid.lat, 14, SumSizes(Counted(r)), r.name, TRUE)

\* C12: however the steps of concurrent listings interleave, every scan that
\* succeeds returns the descriptor of the repository's shard files; repository.json
\* never holds bytes of two writes mixed; and once every goroutine has returned, the
\* repository.json of a repository that was scanned holds, complete, the JSON
\* document of that descriptor.
C12_ConcurrentScans ==
    \A k \in 1..Len(disk.entries) :
        /\ disk.entries[k].sidecar.kind # "mixed"
        /\ \A p \in ScannedBy(k) :
              /\ gor[p].repos[GorPos(k)] = Correct(disk.entries[k])
              /\ gor[p].pc = "done" => gor[p].res.repos[GorPos(k)] = Correct(disk.entries[k])
        /\ \A p \in Procs : Scanning(p, k) /\ gor[p].pc # "scan" =>
              gor[p].scan.repo = Correct(disk.entries[k])
        /\ (ScannedBy(k) # {} /\ \A p \in Procs : gor[p].pc = "done") =>
              /\ Parses(disk.entries[k].sidecar)
              /\ disk.entries[k].sidecar = MarshalIndent(Correct(disk.entries[k]))

\* two goroutines have scanned the same repository, the second having created
\* repository.json before the first wrote it, and both have returned
C12_Witness ==
    /\ gor[1].pc = "done" /\ gor[2].pc = "done"
    /\ ScannedBy(1) = {1, 2}
    /\ disk.entries[1].subs = RepoTwo.subs
    /\ gor[1].res.repos = gor[2].res.repos
    /\ gor[1].res.repos[1].Size = 12288
    /\ disk.entries[1].sidecar = MarshalIndent(gor[2].res.repos[1])

----------------------------------------------------------------------------
(* A listing whose caller gives up: the request of listRepositoriesHandler  *)
(* carries the caller's cancellation, and ListRepositories is called        *)
(* without it                                                               *)

\* the caller cancels the request of the listing in flight; nothing of the listing
\* reads the signal
ListRepositories_Cancel ==
    /\ lpc # "idle"
    /\ lcancel = NoCancel
    /\ lcancel' = [call |-> lcalls, pc |-> lpc, li |-> li,
                   sidecars |-> [k \in 1..Len(disk.entries) |-> disk.entries[k].sidecar]]
    /\ UNCHANGED <<disk, fvars, lvars, gor, bacc, bin, zvars>>

NextCancel == ListRepositories_Next \/ ListRepositories_Cancel
SpecCancel == Init /\ [][NextCancel]_vars

\* the listing that was cancelled is still in flight, or has just returned
CancelledListing ==
    /\ lcancel # NoCancel
    /\ \/ lcalls = lcancel.call
       \/ lcalls = lcancel.call + 1 /\ lpc = "idle"

\* C18: when the caller cancels while the scan of a repository is running and has
\* not yet created repository.json, the scan persists nothing: repository.json of
\* that repository stays as it was, and the scan makes no further system call.
C18_CancelledScanPersistsNothing ==
    (CancelledListing /\ lcancel.pc = "scan") =>
        /\ disk.entries[lcancel.li].sidecar = lcancel.sidecars[lcancel.li]
        /\ \A e \in Events(lcancel.li) : e.op \notin {"os.Create", "file.Write"}

----------------------------------------------------------------------------
(* What a scan takes into account, checked under Spec                       *)

\* a zoom-letter directory, a shard file, a tile table
IsZoomDir(d) == d.isDir /\ \E i \in 1..26 : d.name = <<Letters[i]>>
IsShardFile(f) ==
    /\ ~f.isDir
    /\ Len(f.name) >= 2 /\ f.name[Len(f.name) - 1] = "." /\ f.name[Len(f.name)] = "s"
IsTileTable(t) == Cardinality({i \in 1..Len(t.name) : t.name[i] = "_"}) = 2

\* repository r without every other directory, file and table
Strip(r) ==
    LET StripDb(db) == [db EXCEPT !.tables = SelectSeq(@, IsTileTable)]
        StripFile(f) == [f EXCEPT !.db = StripDb(@)]
        shards(d) == SelectSeq(d.files, IsShardFile)
        StripDir(d) == [d EXCEPT !.files = [i \in 1..Len(shards(d)) |-> StripFile(shards(d)[i])]]
        dirs == SelectSeq(r.subs, IsZoomDir)
    IN  [r EXCEPT !.subs = [i \in 1..Len(dirs) |-> StripDir(dirs[i])]]

\* the paths of the zoom-letter directories of r and of the shard files in them
ZoomDirPaths(r) == {Join(r.name, r.subs[i].name) : i \in {j \in 1..Len(r.subs) : IsZoomDir(r.subs[j])}}
ShardPaths(r) ==
    UNION {{Join(Join(r.name, r.subs[i].name), r.subs[i].files[j].name) :
               j \in {n \in 1..Len(r.subs[i].files) : IsShardFile(r.subs[i].files[n])}} :
           i \in {j \in 1..Len(r.subs) : IsZoomDir(r.subs[j])}}

\* C21: a scan reads no directory but the repository directory and its
\* subdirectories named by one letter A..Z, and opens no file but the
\* non-directory entries of those whose name ends in ".s"; and the descriptor
\* the listing holds for a repository it scanned, and the descriptor between
\* the scan and the write, are those of the repository without every other
\* subdirectory, file and table (a table being kept when its name has exactly
\* three parts between underscores).
C21_OnlyShardsCount ==
    /\ \A k \in DirIndexes :
          LET r == ldisk0.entries[k] IN
          /\ \A e \in Events(k) :
                /\ e.op = "os.ReadDir" => e.path \in {r.name} \cup ZoomDirPaths(r)
                /\ e.op \in {"sql.Open", "calExtend", "os.Stat"} => e.path \in ShardPaths(r)
          /\ (Handled(k) /\ ~Parses(r.sidecar)) => lrepos[Pos(k)] = ScanEntry(Strip(r))
    /\ \A p \in Produced :
          LET r == Strip(ldisk0.entries[p[1]]) IN
          p[2] = analysis_repo(r, analysis_scan(p[1], r).scan)

\* a listing has scanned the repository that holds the tile (0, 0) in its one
\* shard file and the tile (1, 1) everywhere else, and returned the centre of
\* the tile (0, 0) and the size of the shard file
C21_Witness ==
    /\ lpc = "idle" /\ lcalls = 1
    /\ ldisk0.entries[1].subs = RepoNoise.subs
    /\ Len(ldisk0.entries[1].subs) = 6 /\ Len(Strip(ldisk0.entries[1]).subs) = 1
    /\ 1 \in Scanned
    /\ lres.repos[1].Pared /\ lres.repos[1].Size = 4096
    /\ lres.repos[1].Lng = Deg(-180) + 11520 /\ lres.repos[1].Lat = 89181578

----------------------------------------------------------------------------
(* The zoom letter, checked under SpecXYZ                                   *)

\* C22: for every zoom in 0..25 the letter of the fetch is the letter number
\* max(zoom, 9) of the alphabet, one of J..Z, and two zooms of 0..25 have the
\* same letter only when max(zoom, 9) is the same; for every zoom above 25 the
\* character computed is none of A..Z.  The subdirectory and the first
\* character of the shard file and of the table are that character.
C22_ZoomCeiling ==
    LET z == fcall.z
        AtoZ == {Letters[i] : i \in 1..26}
        JtoZ == {Letters[i] : i \in 10..26}
        c == GetXYZ_subDir(z)[1]
    IN  /\ Len(GetXYZ_subDir(z)) = 1
        /\ z \in 0..25 =>
              /\ GetXYZ_letter(z) \in 74..90
              /\ c \in JtoZ
              /\ c = Letters[(IF z < 9 THEN 9 ELSE z) + 1]
              /\ \A z2 \in 0..25 :
                    (GetXYZ_subDir(z2) = GetXYZ_subDir(z))
                        <=> ((IF z2 < 9 THEN 9 ELSE z2) = (IF z < 9 THEN 9 ELSE z))
        /\ z = 25 => c = "Z"
        /\ z > 25 => c \notin AtoZ
        /\ fpc # "call" => fcall.subDir = <<c>> /\ fcall.dbFile[1] = c
        /\ fcall.tableName # <<>> => fcall.tableName[1] = c

\* the fetch of a tile of zoom 26 has looked under the directory named by the
\* character after Z and found no shard file
C22_Witness ==
    /\ fpc = "done"
    /\ fcall.x = 0 /\ fcall.y = 0 /\ fcall.z = 26
    /\ fcall.subDir = <<"[">>
    /\ fres = ErrResult("not exist")

----------------------------------------------------------------------------
(* tileBound, one call per behaviour                                        *)

\* the deepest zoom level of which every tile is tried
MaxTileZoom == 3

\* the rows and columns tried at a zoom level: all of them up to MaxTileZoom,
\* and the first two of zoom level 14
TileRange(zoom) == IF zoom <= MaxTileZoom THEN 0..(Pow2(zoom) - 1) ELSE 0..1

Tiles ==
    {[tx |-> x, ty |-> y, zoom |-> z] :
        x \in 0..(Pow2(MaxTileZoom) - 1), y \in 0..(Pow2(MaxTileZoom) - 1), z \in 0..MaxTileZoom}
    \cup {[tx |-> x, ty |-> y, zoom |-> 14] : x \in 0..1, y \in 0..1}

\* lines 254-255 and 258: the two corners in metres
tileBound_Meters ==
    /\ tpc = "call"
    /\ tm' = << pixelsToMeters(ttile.tx * 256, ttile.ty * 256, ttile.zoom),
                pixelsToMeters((ttile.tx + 1) * 256, (ttile.ty + 1) * 256, ttile.zoom) >>
    /\ tpc' = "lnglat"
    /\ UNCHANGED <<disk, fvars, lvars, xvars, ttile, tbox, upc, ucall, ufs>>

\* lines 256 and 259-266: the two corners in degrees, and the box
tileBound_Return ==
    /\ tpc = "lnglat"
    /\ tbox' = tileBound(ttile.tx, ttile.ty, ttile.zoom)
    /\ tpc' = "done"
    /\ UNCHANGED <<disk, fvars, lvars, xvars, ttile, tm, upc, ucall, ufs>>

InitTile ==
    /\ disk = Root(<<>>)
    /\ fpc = "idle" /\ fcall = NoCall /\ fres = NoResult /\ fhandles = 0 /\ flog = <<>>
    /\ lpc = "idle" /\ li = 0 /\ lrepos = <<>> /\ lscan = NoScan /\ lres = NoListing
    /\ llog = <<>> /\ lhandles = 0 /\ lcalls = 0
    /\ ldisk0 = disk
    /\ lcancel = NoCancel
    /\ gor = [p \in Procs |-> NoGoroutine]
    /\ bacc = NewBox
    /\ bin = [todo |-> <<>>, done |-> <<>>]
    /\ tpc = "call"
    /\ ttile \in {t \in Tiles : t.tx \in TileRange(t.zoom) /\ t.ty \in TileRange(t.zoom)}
    /\ tm = <<>>
    /\ tbox = NewBox
    /\ NoUpdateCall
NextTile == tileBound_Meters \/ tileBound_Return
SpecTile == InitTile /\ [][NextTile]_vars

\* the width of a tile of a zoom level, in units of longitude
TileWidth(zoom) == Deg(360) \div Pow2(zoom)

\* C23: the box tileBound returns for a tile has as minx and maxy the longitude
\* and latitude of the top-left pixel corner (tx*256, ty*256) and as maxx and
\* miny those of the bottom-right corner ((tx+1)*256, (ty+1)*256); minx is
\* -180 + tx * 360 / 2^zoom and maxx one tile width more; minx < maxx and
\* miny < maxy; the top row starts at latitude 85.0511...; and the box of every
\* tile of a row below lies at smaller latitudes, starting where the row above
\* ends or lower.
C23_TileBoundCorners ==
    LET tx == ttile.tx
        ty == ttile.ty
        z == ttile.zoom
        w == TileWidth(z)
    IN  /\ tpc \in {"lnglat", "done"} =>
              /\ tm[1] = [mx |-> Deg(-180) + tx * w, my |-> Deg(180) - ty * w]
              /\ tm[2] = [mx |-> Deg(-180) + (tx + 1) * w, my |-> Deg(180) - (ty + 1) * w]
        /\ tpc = "done" =>
              /\ tbox.minx = meterToLngLat(tm[1].mx, tm[1].my).lon
              /\ tbox.maxy = meterToLngLat(tm[1].mx, tm[1].my).lat
              /\ tbox.maxx = meterToLngLat(tm[2].mx, tm[2].my).lon
              /\ tbox.miny = meterToLngLat(tm[2].mx, tm[2].my).lat
              /\ tbox.minx = Deg(-180) + tx * w
              /\ tbox.maxx = tbox.minx + w
              /\ tbox.minx < tbox.maxx
              /\ tbox.miny < tbox.maxy
              /\ ty = 0 => tbox.maxy = 89182572
              /\ \A ty2 \in TileRange(z) :
                    ty2 > ty =>
                        /\ tileBound(tx, ty2, z).maxy < tbox.maxy
                        /\ tileBound(tx, ty2, z).miny < tbox.miny
                        /\ tileBound(tx, ty2, z).maxy <= tbox.miny
                        /\ ty2 = ty + 1 => tileBound(tx, ty2, z).maxy = tbox.miny

\* tileBound has returned the box of the tile (1, 2) of zoom 2, which lies
\* between the equator and 66.51 degrees of southern latitude
C23_Witness ==
    /\ tpc = "done"
    /\ ttile = [tx |-> 1, ty |-> 2, zoom |-> 2]
    /\ tbox = [minx |-> Deg(-90), miny |-> -69744208, maxx |-> Deg(0), maxy |-> 0]

\* the pixel corners of the tiles tried at a zoom level
Edges(zoom) == TileRange(zoom) \cup {n + 1 : n \in TileRange(zoom)}
Corners(zoom) == {[px |-> 256 * i, py |-> 256 * j] : i \in Edges(zoom), j \in Edges(zoom)}

\* pixel -> metres -> degrees
Project(p, zoom) ==
    LET m == pixelsToMeters(p.px, p.py, zoom) IN meterToLngLat(m.mx, m.my)

\* the inverse: degrees -> Mercator degrees -> pixel, the latitude going back
\* through the Mercator latitude transform (180/Pi * ln(tan(Pi/4 + lat*Pi/360)))
Unproject(q, zoom) ==
    LET ys == {Deg(180) - j * TileWidth(zoom) : j \in Edges(zoom)}
        y == CHOOSE v \in ys : InvMercator(v) = q.lat
        pixel == TileWidth(zoom) \div 256
    IN  [px |-> (q.lon + Deg(180)) \div pixel, py |-> (Deg(180) - y) \div pixel]

----------------------------------------------------------------------------
(* The address as a partition of the tiles, checked under SpecXYZ           *)

\* the number a sequence of decimal digits writes
RECURSIVE ParseD(_)
ParseD(d) == IF d = <<>> THEN 0 ELSE 10 * ParseD(SubSeq(d, 1, Len(d) - 1)) + (Ord(d[Len(d)]) - 48)

\* the two numbers in a name letter_a_b, which follow its last two underscores
NumbersOf(n) ==
    LET us == {i \in 1..Len(n) : n[i] = "_"}
        u2 == MaxOf(us)
        u1 == MaxOf(us \ {u2})
    IN  [a |-> ParseD(SubSeq(n, u1 + 1, u2 - 1)), b |-> ParseD(SubSeq(n, u2 + 1, Len(n)))]

\* C25: for x >= 0 and y >= 0 the tile is recovered from its address, x = 64 *
\* (first number of the table) + row mod 64 and y = 64 * (second number of the
\* table) + row div 64, so no two tiles of one effective zoom have the same
\* shard file, table and row; the table lies in the shard file of the tile (its
\* numbers divided by 4 are those of the shard file, which are x div 256 and
\* y div 256, and both names start with the same character); the 256 x 256 block
\* of the shard file has 4 x 4 = 16 tables, the blocks next to it are in other
\* shard files, and a row index is one of 0..4095.
C25_AddressPartition ==
    (fcall.x >= 0 /\ fcall.y >= 0) =>
        LET x == fcall.x
            y == fcall.y
            z == fcall.z
            f == GetXYZ_dbFile(x, y, z)
            t == GetXYZ_tableName(x, y, z)
            row == GetXYZ_index(x, y)
            tn == NumbersOf(t)
            fn == NumbersOf(SubSeq(f, 1, Len(f) - 2))
            x0 == 256 * fn.a
            y0 == 256 * fn.b
            TablesOf == {GetXYZ_tableName(x0 + 64 * i, y0 + 64 * j, z) : i \in 0..3, j \in 0..3}
        IN  /\ 64 * tn.a + (row % 64) = x
            /\ 64 * tn.b + (row \div 64) = y
            /\ row \in 0..4095
            /\ tn.a \div 4 = fn.a /\ tn.b \div 4 = fn.b
            /\ fn.a = x \div 256 /\ fn.b = y \div 256
            /\ t[1] = f[1]
            /\ t \in TablesOf
            /\ Cardinality(TablesOf) = 16
            /\ \A i \in 0..3 : \A j \in 0..3 : GetXYZ_dbFile(x0 + 64 * i, y0 + 64 * j, z) = f
            /\ \A i \in 0..3 :
                  /\ GetXYZ_dbFile(x0 + 256, y0 + 64 * i, z) # f
                  /\ GetXYZ_dbFile(x0 + 64 * i, y0 + 256, z) # f
            /\ fpc \in {"query", "done"} /\ fcall.tableName # <<>> =>
                  /\ fcall.dbFile = f /\ fcall.tableName = t /\ fcall.index = row
                  /\ 64 * NumbersOf(fcall.tableName).a + (fcall.index % 64) = x
                  /\ 64 * NumbersOf(fcall.tableName).b + (fcall.index \div 64) = y

\* the fetch of (63, 0, 9) has read the table J_0_0 of the shard file J_0_0.s,
\* the table next to J_1_1, which the same shard file holds for the tile (70, 70)
C25_Witness ==
    /\ fpc = "done"
    /\ fcall.x = 63 /\ fcall.y = 0 /\ fcall.z = 9
    /\ fcall.dbFile = <<"J", "_", "0", "_", "0", ".", "s">>
    /\ fcall.dbFile = GetXYZ_dbFile(70, 70, 9)
    /\ fcall.tableName = <<"J", "_", "0", "_", "0">>
    /\ fcall.tableName # GetXYZ_tableName(70, 70, 9)
    /\ fres.kind = "data"

----------------------------------------------------------------------------
(* The database handles of a scan, checked under Spec                       *)

\* C26: when no listing is in flight, no database handle that a scan opened is
\* open; and a listing in flight holds no handle but while it scans.
C26_ScanHandlesClosed ==
    /\ lpc = "idle" => lhandles = 0
    /\ lpc \in {"loop", "create", "write"} => lhandles = 0

----------------------------------------------------------------------------
(* The life of repository.json, checked under SpecServe                     *)

\* the listing in flight has tried to read repository.json of entry k and failed
ReadFailed(k) == \E e \in Events(k) : e.op = "os.Open" /\ e.out \in {"open", "parse"}

\* C27: no step of a listing or of a tile fetch changes a repository.json that
\* parses, be it one that was there before or one a listing has written; and a
\* repository.json differs from what it was when the listing in flight was
\* called only when it was absent or did not parse then and the listing has
\* tried to read it and failed.
C27_WellFormedSidecarKept ==
    /\ [](\A k \in 1..Len(disk.entries) :
             disk.entries[k].sidecar # ldisk0.entries[k].sidecar =>
                 /\ ~Parses(ldisk0.entries[k].sidecar)
                 /\ ReadFailed(k))
    /\ [][\A k \in 1..Len(disk.entries) :
             Parses(disk.entries[k].sidecar) =>
                 disk'.entries[k].sidecar = disk.entries[k].sidecar]_vars

\* a second listing and a tile fetch have returned and left in place the
\* repository.json that the first listing wrote
C27_Witness ==
    /\ lpc = "idle" /\ lcalls = 2 /\ fpc = "done"
    /\ Len(disk.entries) = 1
    /\ disk.entries[1].subs = RepoOne.subs
    /\ Parses(ldisk0.entries[1].sidecar)
    /\ disk.entries[1].sidecar = ldisk0.entries[1].sidecar
    /\ Decode(disk.entries[1].sidecar).Size = 4096
    /\ Len(LogOf(1)) = 1 /\ LogOf(1)[1].op = "os.Open" /\ LogOf(1)[1].out = "ok"

----------------------------------------------------------------------------
(* Reading repository.json while another listing writes it, checked under   *)
(* SpecPar; ldisk0 is the directory tree the behaviour started from         *)

\* what goroutine p got from its os.Open of repository.json of entry k
OpenedBy(p, k) == {e.out : e \in {ev \in GorEvents(p, k) : ev.op = "os.Open"}}

\* the descriptors that a complete repository.json of entry k gives: the file the
\* behaviour started with, when it parses, and the file a scan writes
Cached(k) ==
    {Decode(doc) : doc \in {d \in {ldisk0.entries[k].sidecar,
                                     MarshalIndent(Correct(disk.entries[k]))} : Parses(d)}}

\* C28: the descriptor a goroutine holds for a repository is, when its read of
\* repository.json succeeded, the descriptor of a complete repository.json (the
\* one that was there from the start or the one a scan wrote), and the
\* goroutine has not scanned; and when the read failed, as it does on a file
\* that another goroutine has just created or has written in part, the result of
\* its own scan or the placeholder.  It is never built from an empty or partial
\* file.
C28_NoTornRead ==
    \A p \in Procs : \A k \in 1..Len(disk.entries) :
        (disk.entries[k].isDir /\ gor[p].li > k) =>
            LET d == gor[p].repos[GorPos(k)]
                r == disk.entries[k]
            IN  /\ Cardinality(OpenedBy(p, k)) = 1
                /\ d \in Cached(k) \cup {Correct(r), Placeholder(r.name)}
                /\ d # Decode(EmptyFile) /\ d # Decode(PartialFile)
                /\ "ok" \in OpenedBy(p, k) =>
                      /\ d \in Cached(k)
                      /\ \A e \in GorEvents(p, k) : e.op = "os.Open"
                /\ "ok" \notin OpenedBy(p, k) =>
                      /\ d \in {Correct(r), Placeholder(r.name)}
                      /\ d = Correct(r) <=> p \in ScannedBy(k)
                /\ gor[p].pc = "done" => gor[p].res.repos[GorPos(k)] = d

\* goroutine 2 has opened the repository.json that goroutine 1 had just created
\* and not yet written, has scanned the repository itself, and both have
\* returned the scanned descriptor
C28_Witness ==
    /\ gor[1].pc = "done" /\ gor[2].pc = "done"
    /\ ldisk0.entries[1].sidecar = Absent
    /\ disk.entries[1].subs = RepoTwo.subs
    /\ OpenedBy(1, 1) = {"open"} /\ OpenedBy(2, 1) = {"parse"}
    /\ ScannedBy(1) = {1, 2}
    /\ gor[2].res.repos[1] = Correct(disk.entries[1])
    /\ gor[1].res.repos[1] = Correct(disk.entries[1])

----------------------------------------------------------------------------
(* Updater.PerformUpdate and Updater.downloadAndPrepareBinary               *)
(* (src/updater/updater.go)                                                 *)

\* semver.ParseTolerant on a string of digits, dots and letters: a leading v is
\* dropped, the string is split at its first two dots, a short version is
\* padded with "0" parts, and each of the three parts must be a number without
\* a leading zero
ParseTolerant(s) ==
    LET t == IF s # <<>> /\ s[1] = "v" THEN Tail(s) ELSE s
        dots == {i \in 1..Len(t) : t[i] = "."}
        d1 == MinOf(dots)
        d2 == MinOf(dots \ {d1})
        parts ==
            IF dots = {} THEN <<t>>
            ELSE IF dots \ {d1} = {} THEN <<SubSeq(t, 1, d1 - 1), SubSeq(t, d1 + 1, Len(t))>>
            ELSE <<SubSeq(t, 1, d1 - 1), SubSeq(t, d1 + 1, d2 - 1), SubSeq(t, d2 + 1, Len(t))>>
        padded == parts \o [i \in 1..(3 - Len(parts)) |-> <<"0">>]
        numeric(q) ==
            /\ q # <<>>
            /\ \A i \in 1..Len(q) : Ord(q[i]) \in 48..57
            /\ Len(q) > 1 => q[1] # "0"
    IN  IF \A i \in 1..3 : numeric(padded[i])
        THEN [err |-> FALSE, v |-> [i \in 1..3 |-> ParseD(padded[i])]]
        ELSE [err |-> TRUE, v |-> <<0, 0, 0>>]

\* a comparison that takes its operands in the wrong order
Compare_mut_reversed(a, b) ==
    IF a[1] # b[1] THEN (IF b[1] > a[1] THEN 1 ELSE -1)
    ELSE IF a[2] # b[2] THEN (IF b[2] > a[2] THEN 1 ELSE -1)
    ELSE IF a[3] # b[3] THEN (IF b[3] > a[3] THEN 1 ELSE -1)
    ELSE 0

\* semver.Version.Compare on versions without pre-release: major, then minor,
\* then patch, each as a number; LTE is Compare <= 0 and LT is Compare < 0
Compare(a, b) ==
    IF a[1] # b[1] THEN (IF a[1] > b[1] THEN 1 ELSE -1)
    ELSE IF a[2] # b[2] THEN (IF a[2] > b[2] THEN 1 ELSE -1)
    ELSE IF a[3] # b[3] THEN (IF a[3] > b[3] THEN 1 ELSE -1)
    ELSE 0

\* lines 55-91: getUpdateInfo, the three versions parsed, latest compared with
\* current and current with min. The server's answer is an input: a failure
\* (no connection, a status other than 200, JSON that does not decode) or an
\* UpdateInfo.
PerformUpdate_Check ==
    /\ upc = "check"
    /\ LET tgz == <<"s", ".", "t", "a", "r", ".", "g", "z">>
           zip == <<"s", ".", "z", "i", "p">>
           raw == <<"s">>
           Latests == { <<"1", ".", "2">>, <<"v", "1", ".", "1", "0", ".", "0">>,
                        <<"1", ".", "1", ".", "9">>, <<>> }
           Mins == { <<"1", ".", "0", ".", "0">>, <<"1", ".", "3">>, <<"x">> }
           Lists ==
               { <<>>,
                 <<[OS |-> "windows", Arch |-> "amd64", Filename |-> zip]>>,
                 <<[OS |-> "linux", Arch |-> "arm64", Filename |-> tgz]>>,
                 <<[OS |-> "windows", Arch |-> "amd64", Filename |-> zip],
                   [OS |-> "linux", Arch |-> "amd64", Filename |-> tgz]>>,
                 <<[OS |-> "linux", Arch |-> "amd64", Filename |-> zip]>>,
                 <<[OS |-> "linux", Arch |-> "amd64", Filename |-> raw],
                   [OS |-> "linux", Arch |-> "amd64", Filename |-> tgz]>> }
       IN  \E ok \in BOOLEAN, latest \in Latests, minv \in Mins, downloads \in Lists :
            IF ~ok
            THEN /\ ucall' = [ucall EXCEPT !.ret = "err", !.log = @ \o <<"getUpdateInfo">>]
                 /\ upc' = "done"
            ELSE LET c == ParseTolerant(ucall.current)
                     l == ParseTolerant(latest)
                     m == ParseTolerant(minv)
                     info == [ucall EXCEPT !.latest = latest, !.min = minv,
                                           !.downloads = downloads]
                 IN  IF c.err \/ l.err \/ m.err
                     THEN /\ ucall' = [info EXCEPT !.ret = "err",
                                         !.log = @ \o <<"getUpdateInfo", "ParseTolerant">>]
                          /\ upc' = "done"
                     ELSE IF Compare(l.v, c.v) <= 0
                     THEN /\ ucall' = [info EXCEPT !.ret = "nil",
                                         !.log = @ \o <<"getUpdateInfo", "ParseTolerant", "LTE">>]
                          /\ upc' = "done"
                     ELSE IF Compare(c.v, m.v) < 0
                     THEN /\ ucall' = [info EXCEPT !.ret = "nil",
                                         !.log = @ \o <<"getUpdateInfo", "ParseTolerant",
                                                        "LTE", "LT">>]
                          /\ upc' = "done"
                     ELSE /\ ucall' = [info EXCEPT
                                         !.log = @ \o <<"getUpdateInfo", "ParseTolerant",
                                                        "LTE", "LT">>]
                          /\ upc' = "confirm"
    /\ UNCHANGED <<disk, fvars, lvars, xvars, tvars, ufs>>

\* lines 94-119: the user's answer (fmt.Scanln, strings.ToLower), the first
\* download of the running system (runtime.GOOS is "linux", runtime.GOARCH
\* "amd64"), and the download URL: filepath.Join joins the base URL, the latest
\* version and the file name with "/" and cleans the result as a path, which
\* turns every run of slashes into one slash
PerformUpdate_Confirm ==
    /\ upc = "confirm"
    /\ LET ToLower(a) ==
               [i \in 1..Len(a) |->
                   IF Ord(a[i]) \in 65..90 THEN Ascii[Ord(a[i]) + 1] ELSE a[i]]
           Answers == { <<"y">>, <<"Y">>, <<"n">>, <<>>, <<"y", "e", "s">>, <<"N">> }
           matches == {i \in 1..Len(ucall.downloads) :
                          /\ ucall.downloads[i].OS = "linux"
                          /\ ucall.downloads[i].Arch = "amd64"}
           target == MinOf(matches)
           joined == ucall.base \o <<"/">> \o ucall.latest \o <<"/">>
                         \o ucall.downloads[target].Filename
           kept == {i \in 1..Len(joined) : ~(joined[i] = "/" /\ i > 1 /\ joined[i - 1] = "/")}
           Clean == [j \in 1..Cardinality(kept) |->
                        joined[CHOOSE i \in kept : Cardinality({k \in kept : k <= i}) = j]]
       IN  \E answer \in Answers :
            IF ToLower(answer) # <<"y">>
            THEN /\ ucall' = [ucall EXCEPT !.answer = answer, !.ret = "nil",
                                           !.log = @ \o <<"Scanln">>]
                 /\ upc' = "done"
            ELSE IF matches = {}
            THEN /\ ucall' = [ucall EXCEPT !.answer = answer, !.ret = "err",
                                           !.log = @ \o <<"Scanln", "targetDownload">>]
                 /\ upc' = "done"
            ELSE /\ ucall' = [ucall EXCEPT !.answer = answer, !.target = target,
                                           !.url = Clean,
                                           !.filename = ucall.downloads[target].Filename,
                                           !.log = @ \o <<"Scanln", "targetDownload">>]
                 /\ upc' = "prepare"
    /\ UNCHANGED <<disk, fvars, lvars, xvars, tvars, ufs>>

\* lines 165-303: the download into a temporary file and the extraction of the
\* executable. http.Get fails on a URL without a host (the scheme must be
\* followed by "//" and a host); the server's answer, the body it sends and the
\* system call that fails, if any, are inputs. The deferred calls of lines
\* 201-204, 244-247 and 293-296 are registered in defers and run at the return.
downloadAndPrepareBinary_Prepare ==
    /\ upc = "prepare"
    /\ LET url == ucall.url
           colons == {i \in 1..Len(url) : url[i] = ":"}
           c == MinOf(colons)
           hasHost ==
               /\ colons # {}
               /\ Len(url) >= c + 3
               /\ url[c + 1] = "/" /\ url[c + 2] = "/" /\ url[c + 3] # "/"
           archive ==
               IF HasSuffix(ucall.filename, <<".", "t", "a", "r", ".", "g", "z">>) THEN "tar.gz"
               ELSE IF HasSuffix(ucall.filename, <<".", "z", "i", "p">>) THEN "zip"
               ELSE "raw"
           Bodies == [format : {"tar.gz", "zip", "binary"}, hasExe : BOOLEAN]
       IN  \E get \in {"err", "404", "200"}, body \in Bodies,
              io \in {"ok", "CreateTemp", "Copy", "Open", "CreateTempExe", "CopyExe"} :
            LET opened == [ufs EXCEPT !.download = "exists", !.body = body,
                                      !.reading = "open", !.off = "start",
                                      !.defers = {"tempFileForReading"}]
            IN  IF ~hasHost \/ get # "200" \/ io = "CreateTemp"
                THEN /\ ufs' = ufs
                     /\ ucall' = [ucall EXCEPT !.err = TRUE]
                ELSE IF io \in {"Copy", "Open"}
                THEN /\ ufs' = [ufs EXCEPT !.download = "removed"]
                     /\ ucall' = [ucall EXCEPT !.err = TRUE]
                ELSE IF archive = "raw"
                THEN /\ ufs' = [opened EXCEPT !.reader = "tempFileForReading"]
                     /\ ucall' = [ucall EXCEPT !.err = FALSE]
                ELSE IF body.format # archive \/ ~body.hasExe \/ io = "CreateTempExe"
                THEN /\ ufs' = opened
                     /\ ucall' = [ucall EXCEPT !.err = TRUE]
                ELSE IF io = "CopyExe"
                THEN /\ ufs' = [opened EXCEPT !.extracted = "removed", !.exeh = "closed"]
                     /\ ucall' = [ucall EXCEPT !.err = TRUE]
                ELSE /\ ufs' = [opened EXCEPT !.extracted = "exists", !.exeh = "open",
                                              !.reader = "tmpExeFile",
                                              !.defers = {"tempFileForReading", "tmpExeFile"}]
                     /\ ucall' = [ucall EXCEPT !.err = FALSE]
    /\ upc' = "return"
    /\ UNCHANGED <<disk, fvars, lvars, xvars, tvars>>

\* lines 305-309 with the deferred calls: tmpExeFile.Close() and os.Remove of
\* the extracted file (lines 244-247, 293-296), then tempFileForReading.Close()
\* and os.Remove of the downloaded file (lines 201-204), run before the caller
\* has the reader
downloadAndPrepareBinary_Return ==
    /\ upc = "return"
    /\ ufs' = [ufs EXCEPT
                 !.exeh = IF "tmpExeFile" \in ufs.defers THEN "closed" ELSE @,
                 !.extracted = IF "tmpExeFile" \in ufs.defers THEN "removed" ELSE @,
                 !.reading = IF "tempFileForReading" \in ufs.defers THEN "closed" ELSE @,
                 !.download = IF "tempFileForReading" \in ufs.defers THEN "removed" ELSE @,
                 !.reader = IF ucall.err THEN "nil" ELSE @,
                 !.defers = {}]
    /\ IF ucall.entry = "PerformUpdate"
       THEN /\ ucall' = [ucall EXCEPT !.log = @ \o <<"downloadAndPrepareBinary">>]
            /\ upc' = "apply"
       ELSE /\ ucall' = [ucall EXCEPT !.log = @ \o <<"downloadAndPrepareBinary">>,
                                      !.ret = IF ucall.err THEN "err" ELSE "nil"]
            /\ upc' = "done"
    /\ UNCHANGED <<disk, fvars, lvars, xvars, tvars>>

\* lines 121-142: the error of the download returned; otherwise update.Apply,
\* which reads the whole reader (ioutil.ReadAll) before it touches the
\* executable and fails on a closed file, and which may fail on the executable
\* itself (an input); os.Exit(0) after a successful update
PerformUpdate_Apply ==
    /\ upc = "apply"
    /\ LET handle == IF ufs.reader = "tmpExeFile" THEN ufs.exeh ELSE ufs.reading
           closed == [ufs EXCEPT !.exeh = IF ufs.reader = "tmpExeFile" THEN "closed" ELSE @,
                                 !.reading = IF ufs.reader = "tempFileForReading"
                                             THEN "closed" ELSE @]
       IN  IF ucall.err
           THEN /\ ucall' = [ucall EXCEPT !.ret = "err"]
                /\ ufs' = ufs
           ELSE IF handle # "open"
           THEN /\ ucall' = [ucall EXCEPT !.ret = "err", !.log = @ \o <<"update.Apply">>]
                /\ ufs' = closed
           ELSE \E written \in BOOLEAN :
                   IF written
                   THEN /\ ucall' = [ucall EXCEPT !.log = @ \o <<"update.Apply", "os.Exit">>]
                        /\ ufs' = [ufs EXCEPT !.off = "end", !.executable = "new",
                                              !.exited = TRUE]
                   ELSE /\ ucall' = [ucall EXCEPT !.ret = "err",
                                                  !.log = @ \o <<"update.Apply">>]
                        /\ ufs' = [closed EXCEPT !.off = "end"]
    /\ upc' = "done"
    /\ UNCHANGED <<disk, fvars, lvars, xvars, tvars>>

\* runUpdate calls PerformUpdate on an Updater with a current version and a
\* download base URL; downloadAndPrepareBinary is also entered on its own, with
\* a URL and a file name as arguments
InitUpdate ==
    /\ disk = Root(<<>>)
    /\ fpc = "idle" /\ fcall = NoCall /\ fres = NoResult /\ fhandles = 0 /\ flog = <<>>
    /\ lpc = "idle" /\ li = 0 /\ lrepos = <<>> /\ lscan = NoScan /\ lres = NoListing
    /\ llog = <<>> /\ lhandles = 0 /\ lcalls = 0
    /\ ldisk0 = disk
    /\ lcancel = NoCancel
    /\ gor = [p \in Procs |-> NoGoroutine]
    /\ bacc = NewBox
    /\ bin = [todo |-> <<>>, done |-> <<>>]
    /\ NoTileCall
    /\ ufs = [download |-> "none", extracted |-> "none", reading |-> "none", exeh |-> "none",
              off |-> "start", body |-> [format |-> "none", hasExe |-> FALSE],
              reader |-> "nil", defers |-> {}, executable |-> "old", exited |-> FALSE]
    /\ LET rest == [entry |-> "none", current |-> <<>>, base |-> <<>>, latest |-> <<>>,
                    min |-> <<>>, downloads |-> <<>>, answer |-> <<>>, target |-> 0,
                    url |-> <<>>, filename |-> <<>>, err |-> FALSE, ret |-> "none",
                    log |-> <<>>]
       IN  \/ /\ upc = "check"
              /\ \E current \in { <<"1", ".", "2", ".", "0">>, <<"d", "e", "v">> } :
                    ucall = [rest EXCEPT !.entry = "PerformUpdate", !.current = current,
                                !.base = <<"h", "t", "t", "p", ":", "/", "/", "h", "/">>]
           \/ /\ upc = "prepare"
              /\ \E url \in { <<"h", "t", "t", "p", ":", "/", "/", "h", "/", "s">>,
                              <<"h", "t", "t", "p", ":", "/", "h", "/", "s">> },
                    filename \in { <<"s", ".", "t", "a", "r", ".", "g", "z">>,
                                   <<"s", ".", "z", "i", "p">>, <<"s">> } :
                    ucall = [rest EXCEPT !.entry = "downloadAndPrepareBinary",
                                !.url = url, !.filename = filename]
NextUpdate ==
    \/ PerformUpdate_Check
    \/ PerformUpdate_Confirm
    \/ downloadAndPrepareBinary_Prepare
    \/ downloadAndPrepareBinary_Return
    \/ PerformUpdate_Apply
SpecUpdate == InitUpdate /\ [][NextUpdate]_vars

\* downloadAndPrepareBinary has returned a reader and no error, and nothing has
\* read from the reader yet
Prepared ==
    /\ ~ucall.err
    /\ \E i \in 1..Len(ucall.log) : ucall.log[i] = "downloadAndPrepareBinary"
    /\ \A i \in 1..Len(ucall.log) : ucall.log[i] # "update.Apply"

UpdateSteps ==
    <<"getUpdateInfo", "ParseTolerant", "LTE", "LT", "Scanln", "targetDownload",
      "downloadAndPrepareBinary", "update.Apply", "os.Exit">>

\* PerformUpdate has taken the step
Took(step) == \E i \in 1..Len(ucall.log) : ucall.log[i] = step

\* a parsed version as one number (no part of a version of the model exceeds 99)
VersionKey(s) ==
    LET p == ParseTolerant(s) IN IF p.err THEN -1 ELSE 10000 * p.v[1] + 100 * p.v[2] + p.v[3]

\* the conditions of the update, from the values PerformUpdate was given
LatestIsNewer ==
    /\ VersionKey(ucall.current) >= 0
    /\ VersionKey(ucall.latest) > VersionKey(ucall.current)
CurrentIsSupported ==
    /\ VersionKey(ucall.min) >= 0
    /\ VersionKey(ucall.current) >= VersionKey(ucall.min)
UserSaidYes == ucall.answer \in { <<"y">>, <<"Y">> }
DownloadFound ==
    /\ ucall.target \in 1..Len(ucall.downloads)
    /\ ucall.downloads[ucall.target].OS = "linux"
    /\ ucall.downloads[ucall.target].Arch = "amd64"
    /\ \A i \in 1..(ucall.target - 1) :
          ucall.downloads[i].OS # "linux" \/ ucall.downloads[i].Arch # "amd64"
    /\ ucall.filename = ucall.downloads[ucall.target].Filename

====
